---- MODULE Spec2Model ----
(***************************************************************************)
(* SyncLink: the link lifecycle and reconciliation engine.                 *)
(*                                                                         *)
(* The filesystem is a tree of nodes rooted at "/"; a path is the sequence *)
(* of its components.  The registry is the in-memory Config.Links map      *)
(* (links) and its persisted copy config.json (disk).                      *)
(***************************************************************************)
EXTENDS Integers, Sequences, FiniteSets, TLC

VARIABLES
    fs,         \* the filesystem: the root directory node
    links,      \* configInstance.Links: link name -> LinkInfo
    disk,       \* the links persisted in config.json
    now,        \* the clock read by time.Now()
    xdev,       \* TRUE when the sync directory lies on another device
    platform,   \* TRUE when the shortcut delegates were installed by init()
    envSteps,   \* number of changes made to the filesystem from outside
    faultSteps, \* number of engine calls that met a fault
    last,       \* the last engine call: operation, arguments, result, state before
    mv,         \* the MoveFileOrDir call under study: arguments, result, state before
    bulk,       \* the bulk command in progress (relink * / unlink *)
    ld,         \* the LoadConfig / GetConfig callers and sync.Once
    rg          \* the registry under concurrent reads and writes: Config, file, lock

vars == <<fs, links, disk, now, xdev, platform, envSteps, faultSteps, last, mv, bulk, ld, rg>>

----------------------------------------------------------------------------
(* Bounds of the model *)

MaxSymlinkHops == 3   \* symbolic links followed while resolving one path
MaxTime == 3          \* values of the clock
MaxEnv == 1           \* changes made from outside the program in one run
MaxFaults == 1        \* engine calls of one run in which a step fails
MaxWorkers == 3       \* links handled by one bulk command
MaxCallers == 3       \* concurrent first callers of LoadConfig / GetConfig
MaxGoroutines == 2    \* goroutines calling the accessors of the loaded Config

----------------------------------------------------------------------------
(* Filesystem nodes *)

EmptyE == [x \in {} |-> 0]
NoPath == <<>>

NoNode == [k |-> "none", c |-> 0, t |-> NoPath, e |-> EmptyE]
File(c) == [k |-> "file", c |-> c, t |-> NoPath, e |-> EmptyE]
Dir(e) == [k |-> "dir", c |-> 0, t |-> NoPath, e |-> e]
Symlink(t) == [k |-> "link", c |-> 0, t |-> t, e |-> EmptyE]
Device == [k |-> "dev", c |-> 0, t |-> NoPath, e |-> EmptyE]
\* a .lnk shortcut file whose TargetPath is t
Lnk(t) == [k |-> "lnk", c |-> 0, t |-> t, e |-> EmptyE]

EmptyDir == Dir(EmptyE)

\* fs.FileMode.IsRegular of a node
IsRegular(n) == n.k \in {"file", "lnk"}

\* the node at a path without symbolic links in it
RECURSIVE NodeAt(_, _)
NodeAt(n, p) ==
    IF p = <<>> THEN n
    ELSE IF n.k = "dir" /\ Head(p) \in DOMAIN n.e
         THEN NodeAt(n.e[Head(p)], Tail(p))
         ELSE NoNode

\* the tree with the entry at real path p set to x (removed when x is NoNode)
RECURSIVE PutAt(_, _, _)
PutAt(n, p, x) ==
    IF p = <<>> THEN x
    ELSE IF Len(p) = 1
    THEN IF x.k = "none"
         THEN Dir([m \in DOMAIN n.e \ {Head(p)} |-> n.e[m]])
         ELSE Dir([m \in DOMAIN n.e \cup {Head(p)} |-> IF m = Head(p) THEN x ELSE n.e[m]])
    ELSE Dir([m \in DOMAIN n.e |->
                IF m = Head(p) THEN PutAt(n.e[m], Tail(p), x) ELSE n.e[m]])

\* Path resolution from the root.  cur is the real path of the directory
\* reached, rest the components still to walk.  A symbolic link in the middle
\* of the path is always followed, the last component only when follow.
\*   st: "ok" | "noent" | "err"     rp: real path of the entry
\*   n: the node                    mk: the entry is missing in an existing directory
RECURSIVE Walk(_, _, _, _, _)
Walk(root, cur, rest, follow, fuel) ==
    IF rest = <<>>
    THEN [st |-> "ok", rp |-> cur, n |-> NodeAt(root, cur), mk |-> FALSE]
    ELSE IF NodeAt(root, cur).k # "dir"
    THEN [st |-> "err", rp |-> cur, n |-> NoNode, mk |-> FALSE]
    ELSE IF Head(rest) \notin DOMAIN NodeAt(root, cur).e
    THEN [st |-> "noent", rp |-> Append(cur, Head(rest)), n |-> NoNode,
          mk |-> Tail(rest) = <<>>]
    ELSE IF NodeAt(root, Append(cur, Head(rest))).k = "link" /\ (Tail(rest) # <<>> \/ follow)
    THEN IF fuel = 0
         THEN [st |-> "err", rp |-> cur, n |-> NoNode, mk |-> FALSE]
         ELSE Walk(root, <<>>, NodeAt(root, Append(cur, Head(rest))).t \o Tail(rest),
                   follow, fuel - 1)
    ELSE Walk(root, Append(cur, Head(rest)), Tail(rest), follow, fuel)

\* os.Stat and os.Lstat
Stat(root, p) == Walk(root, <<>>, p, TRUE, MaxSymlinkHops)
Lstat(root, p) == Walk(root, <<>>, p, FALSE, MaxSymlinkHops)

IsPrefix(p, q) == Len(p) <= Len(q) /\ SubSeq(q, 1, Len(p)) = p

\* the device a real path lies on
DeviceOf(p) == IF xdev /\ Len(p) > 0 /\ p[1] = "sync" THEN 2 ELSE 1

----------------------------------------------------------------------------
(* internal/util *)

\* PathExists: [ok, err]; exists by os.Stat, so a symbolic link is followed
PathExists(root, p) ==
    [ok |-> Stat(root, p).st = "ok", err |-> Stat(root, p).st = "err"]

\* IsDir, IsFile: by os.Stat
IsDir(root, p) == Stat(root, p).st = "ok" /\ Stat(root, p).n.k = "dir"
IsFile(root, p) == Stat(root, p).st = "ok" /\ IsRegular(Stat(root, p).n)

\* IsSymlink: by os.Lstat
IsSymlink(root, p) == Lstat(root, p).st = "ok" /\ Lstat(root, p).n.k = "link"

\* os.MkdirAll: [err, fs].  MkdirNext: the step for the i-th prefix of p,
\* whose os.Stat gave s.
RECURSIVE MkdirAll(_, _, _)
RECURSIVE MkdirNext(_, _, _, _)
MkdirNext(root, p, i, s) ==
    IF s.st = "ok"
    THEN IF s.n.k = "dir" THEN MkdirAll(root, p, i + 1)
         ELSE [err |-> TRUE, fs |-> root]
    ELSE IF s.st = "noent" /\ s.mk
    THEN MkdirAll(PutAt(root, s.rp, EmptyDir), p, i + 1)
    ELSE [err |-> TRUE, fs |-> root]

MkdirAll(root, p, i) ==
    IF i > Len(p) THEN [err |-> FALSE, fs |-> root]
    ELSE MkdirNext(root, p, i, Stat(root, SubSeq(p, 1, i)))

\* EnsureDirExists(dirPath); fault: the directory cannot be created
EnsureDirExists(root, p, fault) ==
    IF fault THEN [err |-> TRUE, fs |-> root] ELSE MkdirAll(root, p, 1)

\* filepath.Dir
DirOf(p) == SubSeq(p, 1, Len(p) - 1)

\* os.Rename(src, dst): [err: "none" | "exdev" | "err", fs].  Neither path's
\* last component is followed.  fault: the rename is refused for another
\* reason than the devices (permissions, a file in use).
RenameEntries(root, s, d, fault) ==
            IF fault \/ s.st # "ok" THEN [err |-> "err", fs |-> root]
            ELSE IF ~(d.st = "ok" \/ (d.st = "noent" /\ d.mk))
            THEN [err |-> "err", fs |-> root]
            ELSE IF DeviceOf(s.rp) # DeviceOf(d.rp) THEN [err |-> "exdev", fs |-> root]
            ELSE IF s.rp = d.rp THEN [err |-> "none", fs |-> root]
            ELSE IF \/ IsPrefix(s.rp, d.rp) \/ IsPrefix(d.rp, s.rp)
                    \/ (d.st = "ok" /\ s.n.k = "dir" /\ d.n # EmptyDir)
                    \/ (d.st = "ok" /\ s.n.k # "dir" /\ d.n.k = "dir")
            THEN [err |-> "err", fs |-> root]
            ELSE [err |-> "none", fs |-> PutAt(PutAt(root, s.rp, NoNode), d.rp, s.n)]

Rename(root, src, dst, fault) ==
    RenameEntries(root, Lstat(root, src), Lstat(root, dst), fault)

\* The content x written at path p as os.OpenFile(O_CREATE|O_TRUNC) and
\* io.Copy do it: through a symbolic link at p, over an existing file.
WriteAt(root, d, x) ==
    IF d.st = "ok" /\ d.n.k = "dev" THEN [err |-> FALSE, fs |-> root]
    ELSE IF d.st = "ok" /\ d.n.k # "dir" THEN [err |-> FALSE, fs |-> PutAt(root, d.rp, x)]
    ELSE IF d.st = "noent" /\ d.mk THEN [err |-> FALSE, fs |-> PutAt(root, d.rp, x)]
    ELSE [err |-> TRUE, fs |-> root]

WriteFile(root, p, x) == WriteAt(root, Stat(root, p), x)

\* os.FileInfo.Size() = 0 for a file node
SizeZero(n) == (n.k = "file" /\ n.c = 0) \/ n.k = "dev"

\* os.Remove(name) with its error ignored
RemoveEntry(root, p) ==
    IF Lstat(root, p).st # "ok" \/ Lstat(root, p).n.k = "dir" THEN root
    ELSE PutAt(root, Lstat(root, p).rp, NoNode)

\* A copy that creates the destination and writes nothing into it
CopyFileNoContent(root, src, dst, fault) ==
    IF MkdirAll(root, DirOf(dst), 1).err THEN MkdirAll(root, DirOf(dst), 1)
    ELSE WriteFile(MkdirAll(root, DirOf(dst), 1).fs, dst, File(0))

\* CopyFile(src, dst).  fault "copy": the source cannot be opened;
\* "copypart": io.Copy fails after the destination was created and truncated.
\* When dst resolves to the source file itself, O_TRUNC empties the source
\* before it is read: the byte count differs and dst is removed.
CopyOpened(r, s, d, dst, fault) ==
    IF fault = "copy" \/ s.st # "ok" \/ ~IsRegular(s.n)
    THEN [err |-> TRUE, fs |-> r]
    ELSE IF fault = "copypart"
    THEN [err |-> TRUE, fs |-> WriteFile(r, dst, File(0)).fs]
    ELSE IF d.st = "ok" /\ d.rp = s.rp /\ ~SizeZero(s.n)
    THEN [err |-> TRUE, fs |-> RemoveEntry(PutAt(r, s.rp, File(0)), dst)]
    ELSE WriteFile(r, dst, s.n)

CopyInto(m, src, dst, fault) ==
    IF m.err THEN m ELSE CopyOpened(m.fs, Stat(m.fs, src), Stat(m.fs, dst), dst, fault)

CopyFile(root, src, dst, fault) ==
    CopyInto(MkdirAll(root, DirOf(dst), 1), src, dst, fault)

\* Every path component of the model, in lexical order (the order in which
\* filepath.WalkDir visits the entries of a directory).
NameOrder == <<"a", "a.lnk", "b", "b.lnk", "c", "c.lnk", "d", "f", "files",
               "home", "menu", "o", "p", "q", "s", "sync", "t", "z">>

FirstName(S) ==
    NameOrder[CHOOSE i \in 1..Len(NameOrder) :
                  /\ NameOrder[i] \in S
                  /\ \A j \in 1..(i - 1) : NameOrder[j] \notin S]

\* The callback of filepath.WalkDir in CopyDir, for the entries todo of the
\* source directory at real path src, copied under the path dst.
RECURSIVE CopyEntries(_, _, _, _)
RECURSIVE CopyRest(_, _, _, _, _)
RECURSIVE CopySubdir(_, _, _)
RECURSIVE CopyEntry(_, _, _, _, _)

\* after the entry h gave r: the walk stops at an error
CopyRest(r, src, todo, dst, h) ==
    IF r.err THEN r ELSE CopyEntries(r.fs, src, todo \ {h}, dst)

\* a directory entry: os.MkdirAll gave m, then its own entries
CopySubdir(m, src, dst) ==
    IF m.err THEN m
    ELSE CopyEntries(m.fs, src, DOMAIN NodeAt(m.fs, src).e, dst)

\* the entry h of the source directory, which is the node x
CopyEntry(root, src, dst, h, x) ==
    IF x.k = "dir"
    THEN CopySubdir(MkdirAll(root, Append(dst, h), 1), Append(src, h), Append(dst, h))
    ELSE IF IsRegular(x) THEN CopyFile(root, Append(src, h), Append(dst, h), "none")
    ELSE [err |-> FALSE, fs |-> root]

CopyEntries(root, src, todo, dst) ==
    IF todo = {} THEN [err |-> FALSE, fs |-> root]
    ELSE CopyRest(CopyEntry(root, src, dst, FirstName(todo),
                            NodeAt(root, Append(src, FirstName(todo)))),
                  src, todo, dst, FirstName(todo))

\* CopyDir(src, dst).  fault "copy": the destination root cannot be created;
\* "copypart": the walk fails after the destination root was created.
\* WalkDir does not follow a symbolic link given as its root.
CopyWalk(m, l, dst, fault) ==
    IF m.err THEN m
    ELSE IF fault = "copypart" THEN [err |-> TRUE, fs |-> m.fs]
    ELSE IF l.n.k # "dir" THEN [err |-> FALSE, fs |-> m.fs]
    ELSE CopyEntries(m.fs, l.rp, DOMAIN l.n.e, dst)

CopyDir(root, src, dst, fault) ==
    IF ~IsDir(root, src) \/ fault = "copy" THEN [err |-> TRUE, fs |-> root]
    ELSE CopyWalk(MkdirAll(root, dst, 1), Lstat(root, src), dst, fault)

\* os.RemoveAll(path)
RemoveAll(root, p, fault) ==
    IF fault THEN [err |-> TRUE, fs |-> root]
    ELSE IF Lstat(root, p).st = "ok"
    THEN [err |-> FALSE, fs |-> PutAt(root, Lstat(root, p).rp, NoNode)]
    ELSE [err |-> Lstat(root, p).st = "err", fs |-> root]

\* The faults a MoveFileOrDir call can meet.
MoveFaults == {"none", "rename", "copy", "copypart", "rmsrc"}

\* MoveFileOrDir(src, dst): [err, copied, fs]; copied: the copy-then-delete
\* fallback was taken.
MoveRemoved(d) == [err |-> d.err, copied |-> TRUE, fs |-> d.fs]

MoveCopied(c, src, fault) ==
    IF c.err THEN [err |-> TRUE, copied |-> TRUE, fs |-> c.fs]
    ELSE MoveRemoved(RemoveAll(c.fs, src, fault = "rmsrc"))

MoveRenamedOrCopied(r, root, src, dst, fault) ==
    IF r.err = "none" THEN [err |-> FALSE, copied |-> FALSE, fs |-> r.fs]
    ELSE MoveCopied(IF IsDir(root, src) THEN CopyDir(root, src, dst, fault)
                    ELSE CopyFile(root, src, dst, fault),
                    src, fault)

MoveRenamed(r, root, src, dst, fault) ==
    IF r.err = "none" THEN [err |-> FALSE, copied |-> FALSE, fs |-> r.fs]
    ELSE IF r.err # "exdev" \/ Stat(root, src).st = "err"
    THEN [err |-> TRUE, copied |-> FALSE, fs |-> root]
    ELSE MoveCopied(IF IsDir(root, src) THEN CopyDir(root, src, dst, fault)
                    ELSE CopyFile(root, src, dst, fault),
                    src, fault)

MoveFileOrDir(root, src, dst, fault) ==
    MoveRenamed(Rename(root, src, dst, fault = "rename"), root, src, dst, fault)

\* A symbolic link made to point at its own path instead of at oldname
OsSymlinkToItself(root, old, new, fault) ==
    IF fault \/ ~(Lstat(root, new).st = "noent" /\ Lstat(root, new).mk)
    THEN [err |-> TRUE, fs |-> root]
    ELSE [err |-> FALSE, fs |-> PutAt(root, Lstat(root, new).rp, Symlink(new))]

\* A symbolic link made over whatever newname holds
OsSymlinkOver(root, old, new, fault) ==
    IF fault \/ Lstat(root, new).st = "err"
             \/ (Lstat(root, new).st = "noent" /\ ~Lstat(root, new).mk)
    THEN [err |-> TRUE, fs |-> root]
    ELSE [err |-> FALSE, fs |-> PutAt(root, Lstat(root, new).rp, Symlink(old))]

\* os.Symlink(oldname, newname): nothing may exist at newname
OsSymlink(root, old, new, fault) ==
    IF fault \/ ~(Lstat(root, new).st = "noent" /\ Lstat(root, new).mk)
    THEN [err |-> TRUE, fs |-> root]
    ELSE [err |-> FALSE, fs |-> PutAt(root, Lstat(root, new).rp, Symlink(old))]

\* os.Remove(name): a file, a symbolic link itself, or an empty directory
OsRemove(root, p, fault) ==
    IF fault \/ Lstat(root, p).st # "ok"
             \/ (Lstat(root, p).n.k = "dir" /\ Lstat(root, p).n # EmptyDir)
    THEN [err |-> TRUE, fs |-> root]
    ELSE [err |-> FALSE, fs |-> PutAt(root, Lstat(root, p).rp, NoNode)]

\* os.Readlink(name): [err, t]
OsReadlink(root, p, fault) ==
    IF fault \/ Lstat(root, p).st # "ok" \/ Lstat(root, p).n.k # "link"
    THEN [err |-> TRUE, t |-> NoPath]
    ELSE [err |-> FALSE, t |-> Lstat(root, p).n.t]

----------------------------------------------------------------------------
(* internal/config: the registry *)

NoLinks == [x \in {} |-> 0]

LinkInfo(shortcut, orig, synced, at) ==
    [Shortcut |-> shortcut, OriginalPath |-> orig, SyncedPath |-> synced, CreatedAt |-> at]

\* saveConfigInternal: the whole in-memory registry rewrites the file
SaveConfig(lk, dk, fault) ==
    IF fault THEN [err |-> TRUE, disk |-> dk] ELSE [err |-> FALSE, disk |-> lk]

\* Config.GetLink
GetLink(lk, name) ==
    IF name \in DOMAIN lk THEN [exists |-> TRUE, info |-> lk[name]]
    ELSE [exists |-> FALSE, info |-> LinkInfo(FALSE, NoPath, NoPath, 0)]

\* Config.AddLink: insert or overwrite in memory, then SaveConfig
Stored(l2, sv) == [err |-> sv.err, links |-> l2, disk |-> sv.disk]
Persist(l2, dk, fault) == Stored(l2, SaveConfig(l2, dk, fault))

AddLink(lk, dk, name, info, fault) ==
    Persist([n \in DOMAIN lk \cup {name} |-> IF n = name THEN info ELSE lk[n]], dk, fault)

\* Config.RemoveLink: delete in memory, SaveConfig only when something was deleted
RemoveLink(lk, dk, name, fault) ==
    IF name \in DOMAIN lk
    THEN [existed |-> TRUE] @@ Persist([n \in DOMAIN lk \ {name} |-> lk[n]], dk, fault)
    ELSE [existed |-> FALSE, err |-> FALSE, links |-> lk, disk |-> dk]

----------------------------------------------------------------------------
(* internal/link: the link engine *)

\* The outcome of an engine call: the error returned ("ok" for nil), a note on
\* what a warning reported, and the state the call leaves.
Out(res, note, root, lk, dk) ==
    [res |-> res, note |-> note, fs |-> root, links |-> lk, disk |-> dk]

\* The fault of the first and of the second MoveFileOrDir of a call
MoveFault(F) == IF F \cap MoveFaults = {} THEN "none"
                ELSE CHOOSE m \in MoveFaults : m \in F
BackFault(F) == IF "back" \in F THEN "rename" ELSE "none"

FilesDir(syncDir) == syncDir \o <<"files">>

\* CreateSymbolicLink(targetPath, linkName, syncDir), from its last step to its
\* first.  a: the arguments and the registry of the call.
CreateRecordedAnyway(r, ad) == Out("ok", "", r, ad.links, ad.disk)

CreateRecorded(r, ad) ==
    IF ad.err THEN Out("e_persist", "", r, ad.links, ad.disk)
    ELSE Out("ok", "", r, ad.links, ad.disk)

CreateNotRolledBack(rb, a) ==
    Out("e_symlink", "rolled back", rb.fs, a.lk, a.dk)

CreateRolledBack(rb, a) ==
    Out("e_symlink", IF rb.err THEN "rollback failed" ELSE "rolled back",
        rb.fs, a.lk, a.dk)

CreateLinked(r, sl, syncedPath, a) ==
    IF sl.err
    THEN CreateRolledBack(MoveFileOrDir(r, syncedPath, a.target, BackFault(a.F)), a)
    ELSE CreateRecorded(sl.fs, AddLink(a.lk, a.dk, a.name,
                                       LinkInfo(FALSE, a.target, syncedPath, a.clock),
                                       "persist" \in a.F))

CreateMoved(m, syncedPath, a) ==
    IF m.err THEN Out("e_move", "", m.fs, a.lk, a.dk)
    ELSE CreateLinked(m.fs, OsSymlink(m.fs, syncedPath, a.target, "symlink" \in a.F),
                      syncedPath, a)

CreateMade(mk, syncedPath, a) ==
    IF mk.err THEN Out("e_mkdir", "", mk.fs, a.lk, a.dk)
    ELSE CreateMoved(MoveFileOrDir(mk.fs, a.target, syncedPath, MoveFault(a.F)),
                     syncedPath, a)

\* A placement that does not look at what the synced path of a directory holds
CreatePlacedUnchecked(root, isFile, syncedPath, a) ==
    IF ~isFile /\ ~IsDir(root, a.target) THEN Out("e_kind", "", root, a.lk, a.dk)
    ELSE CreateMade(EnsureDirExists(root, DirOf(syncedPath), "mkdir" \in a.F),
                    syncedPath, a)

CreatePlaced(root, isFile, syncedPath, a) ==
    IF ~isFile /\ ~IsDir(root, a.target) THEN Out("e_kind", "", root, a.lk, a.dk)
    ELSE IF ~isFile /\ PathExists(root, syncedPath).ok
    THEN Out("e_clobber", "", root, a.lk, a.dk)
    ELSE CreateMade(EnsureDirExists(root, DirOf(syncedPath), "mkdir" \in a.F),
                    syncedPath, a)

CreateTyped(root, isFile, a) ==
    CreatePlaced(root, isFile,
                 IF isFile THEN FilesDir(a.syncDir) \o <<a.name>>
                 ELSE a.syncDir \o <<a.name>>,
                 a)

CreateChecked(root, ex, a) ==
    IF ex.err THEN Out("e_stat", "", root, a.lk, a.dk)
    ELSE IF ~ex.ok THEN Out("e_notarget", "", root, a.lk, a.dk)
    ELSE IF GetLink(a.lk, a.name).exists THEN Out("e_exists", "", root, a.lk, a.dk)
    ELSE CreateTyped(root, IsFile(root, a.target), a)

CreateSymbolicLink(root, lk, dk, clock, target, name, syncDir, F) ==
    CreateChecked(root, PathExists(root, target),
                  [lk |-> lk, dk |-> dk, clock |-> clock, target |-> target,
                   name |-> name, syncDir |-> syncDir, F |-> F])

\* An emptiness test that takes every occupied path for empty
IsEmptyPathAlways(root, p) == TRUE

\* The emptiness test of RemoveSymbolicLink on an occupied original path
IsEmptyPath(root, p) ==
    IF Stat(root, p).st # "ok" THEN TRUE
    ELSE IF Stat(root, p).n.k = "dir" THEN Stat(root, p).n = EmptyDir
    ELSE SizeZero(Stat(root, p).n)

\* RemoveSymbolicLink(linkName), from its last step to its first.
\* a: the name, the registry and the faults of the call.
RemoveRecorded(r, rl, syncedExists) ==
    IF rl.err THEN Out("e_persist", "", r, rl.links, rl.disk)
    ELSE Out("ok", IF syncedExists THEN "" ELSE "synced data missing",
             r, rl.links, rl.disk)

RemoveNeedsData(mb, syncedExists, a) ==
    IF mb.err \/ ~syncedExists THEN Out("e_moveback", "", mb.fs, a.lk, a.dk)
    ELSE RemoveRecorded(mb.fs, RemoveLink(a.lk, a.dk, a.name, "persist" \in a.F),
                        syncedExists)

RemoveRecordFirst(mb, syncedExists, a) ==
    [res |-> IF mb.err THEN "e_moveback" ELSE "ok"]
        @@ RemoveRecorded(mb.fs, RemoveLink(a.lk, a.dk, a.name, "persist" \in a.F),
                          syncedExists)

RemoveMovedBack(mb, syncedExists, a) ==
    IF mb.err THEN Out("e_moveback", "", mb.fs, a.lk, a.dk)
    ELSE RemoveRecorded(mb.fs, RemoveLink(a.lk, a.dk, a.name, "persist" \in a.F),
                        syncedExists)

RemoveUnlinked(root, rm, info, syncedExists, a) ==
    IF rm.err THEN Out("e_rmlink", "", root, a.lk, a.dk)
    ELSE RemoveMovedBack(IF syncedExists
                         THEN MoveFileOrDir(rm.fs, info.SyncedPath, info.OriginalPath,
                                            MoveFault(a.F))
                         ELSE [err |-> FALSE, copied |-> FALSE, fs |-> rm.fs],
                         syncedExists, a)

RemoveConflict(root, cf) ==
    Out("e_conflict", IF cf.err THEN "record not removed" ELSE "record removed",
        root, cf.links, cf.disk)

RemoveVerified(root, info, originalExists, isSymlink, a) ==
    IF ~isSymlink /\ originalExists /\ ~IsEmptyPath(root, info.OriginalPath)
    THEN RemoveConflict(root, RemoveLink(a.lk, a.dk, a.name, "persist" \in a.F))
    ELSE RemoveUnlinked(root,
                        IF isSymlink THEN OsRemove(root, info.OriginalPath, "rm" \in a.F)
                        ELSE [err |-> FALSE, fs |-> root],
                        info, PathExists(root, info.SyncedPath).ok, a)

RemoveProbed(root, info, originalExists, a) ==
    RemoveVerified(root, info, originalExists,
                   originalExists /\ IsSymlink(root, info.OriginalPath), a)

RemoveKnown(root, g, a) ==
    IF ~g.exists THEN Out("e_unknown", "", root, a.lk, a.dk)
    ELSE IF g.info.Shortcut THEN Out("e_kind", "", root, a.lk, a.dk)
    ELSE IF g.info.OriginalPath = NoPath \/ g.info.SyncedPath = NoPath
    THEN Out("e_incomplete", "", root, a.lk, a.dk)
    ELSE RemoveProbed(root, g.info, PathExists(root, g.info.OriginalPath).ok, a)

RemoveSymbolicLink(root, lk, dk, name, F) ==
    RemoveKnown(root, GetLink(lk, name), [lk |-> lk, dk |-> dk, name |-> name, F |-> F])

\* RelinkSymbolicLink(linkName), from its last step to its first
RelinkMade(r, sl, a) ==
    IF sl.err THEN Out("e_symlink", "", r, a.lk, a.dk)
    ELSE Out("ok", "relinked", sl.fs, a.lk, a.dk)

RelinkRecreateUnchecked(r, info, a) ==
    RelinkMade(r, OsSymlink(r, info.SyncedPath, info.OriginalPath, "symlink" \in a.F), a)

RelinkRecreate(r, info, a) ==
    IF ~PathExists(r, info.SyncedPath).ok THEN Out("e_nosynced", "", r, a.lk, a.dk)
    ELSE RelinkMade(r, OsSymlink(r, info.SyncedPath, info.OriginalPath, "symlink" \in a.F),
                    a)

RelinkRemoved(root, rm, info, a) ==
    IF rm.err THEN Out("e_rmlink", "", root, a.lk, a.dk)
    ELSE RelinkRecreate(rm.fs, info, a)

RelinkRead(root, rd, info, originalExists, a) ==
    IF originalExists /\ ~rd.err /\ rd.t = info.SyncedPath
    THEN Out("ok", "correct", root, a.lk, a.dk)
    ELSE RelinkRemoved(root,
                       IF originalExists
                       THEN OsRemove(root, info.OriginalPath, "rm" \in a.F)
                       ELSE [err |-> FALSE, fs |-> root],
                       info, a)

RelinkOverwriting(root, info, originalExists, a) ==
    RelinkRead(root,
               IF originalExists
               THEN OsReadlink(root, info.OriginalPath, "readlink" \in a.F)
               ELSE [err |-> TRUE, t |-> NoPath],
               info, originalExists, a)

RelinkProbed(root, info, originalExists, a) ==
    IF originalExists /\ ~IsSymlink(root, info.OriginalPath)
    THEN Out("e_conflict", "", root, a.lk, a.dk)
    ELSE RelinkRead(root,
                    IF originalExists
                    THEN OsReadlink(root, info.OriginalPath, "readlink" \in a.F)
                    ELSE [err |-> TRUE, t |-> NoPath],
                    info, originalExists, a)

RelinkKnown(root, g, a) ==
    IF ~g.exists THEN Out("e_unknown", "", root, a.lk, a.dk)
    ELSE IF g.info.Shortcut THEN Out("e_kind", "", root, a.lk, a.dk)
    ELSE IF g.info.OriginalPath = NoPath \/ g.info.SyncedPath = NoPath
    THEN Out("e_incomplete", "", root, a.lk, a.dk)
    ELSE RelinkProbed(root, g.info, PathExists(root, g.info.OriginalPath).ok, a)

RelinkSymbolicLink(root, lk, dk, name, F) ==
    RelinkKnown(root, GetLink(lk, name), [lk |-> lk, dk |-> dk, name |-> name, F |-> F])

\* The name of the shortcut file of a link: linkName + ".lnk"
LnkName(name) == CASE name = "a" -> "a.lnk"
                   [] name = "b" -> "b.lnk"
                   [] OTHER -> "c.lnk"

\* getStartMenuProgramsPathWindows: fails when APPDATA and USERPROFILE are unset
GetStartMenuProgramsPath(F) ==
    IF "menu" \in F THEN [err |-> TRUE, path |-> NoPath]
    ELSE [err |-> FALSE, path |-> <<"menu">>]

\* createShortcutWindows(targetPath, linkName, startMenuPathBase): [err, path, fs]
ShortcutWritten(r, w, path, F) ==
    IF "mklnk" \in F \/ w.err THEN [err |-> TRUE, path |-> NoPath, fs |-> r]
    ELSE [err |-> FALSE, path |-> path, fs |-> w.fs]

ShortcutMade(mk, target, path, F) ==
    IF mk.err THEN [err |-> TRUE, path |-> NoPath, fs |-> mk.fs]
    ELSE ShortcutWritten(mk.fs, WriteFile(mk.fs, path, Lnk(target)), path, F)

CreateShortcut(root, target, name, base, F) ==
    ShortcutMade(EnsureDirExists(root, base, "mkdir" \in F), target,
                 base \o <<LnkName(name)>>, F)

\* removeShortcutWindows(linkName, startMenuPathBase, linkInfo): [err, fs]
ShortcutFound(root, ex, path, F) ==
    IF ex.err THEN [err |-> TRUE, fs |-> root]
    ELSE IF ~ex.ok THEN [err |-> FALSE, fs |-> root]
    ELSE OsRemove(root, path, "rm" \in F)

RemoveShortcut(root, name, base, F) ==
    ShortcutFound(root, PathExists(root, base \o <<LnkName(name)>>),
                  base \o <<LnkName(name)>>, F)

\* relinkShortcutWindows: delete the old shortcut, whatever it targets, and
\* create it again from the record
ShortcutAgain(cr) == [err |-> cr.err, fs |-> cr.fs]

ShortcutGone(rm, name, base, info, F) ==
    ShortcutAgain(CreateShortcut(rm.fs, info.OriginalPath, name, base, F))

RelinkShortcut(root, name, base, info, F) ==
    ShortcutGone(RemoveShortcut(root, name, base, F), name, base, info, F)

\* CreateLinkOrShortcut(targetPath, linkName, syncPathBase, isShortcut), the
\* shortcut branch from its last step to its first;
\* hasDelegates: the platform's init() installed the shortcut delegates
CreateCleaned(cl, ad) ==
    Out("e_persist", IF cl.err THEN "shortcut left" ELSE "shortcut removed",
        cl.fs, ad.links, ad.disk)

CreateSavedNoCleanup(cr, ad, F) ==
    IF ad.err THEN Out("e_persist", "shortcut removed", cr.fs, ad.links, ad.disk)
    ELSE Out("ok", "", cr.fs, ad.links, ad.disk)

CreateSaved(cr, ad, F) ==
    IF ad.err THEN CreateCleaned(OsRemove(cr.fs, cr.path, "rm" \in F), ad)
    ELSE Out("ok", "", cr.fs, ad.links, ad.disk)

CreateCreated(cr, a) ==
    IF cr.err THEN Out("e_mklnk", "", cr.fs, a.lk, a.dk)
    ELSE CreateSaved(cr, AddLink(a.lk, a.dk, a.name,
                                 LinkInfo(TRUE, a.target, cr.path, a.clock),
                                 "persist" \in a.F),
                     a.F)

CreateBased(root, menu, ex, a) ==
    IF menu.err THEN Out("e_menu", "", root, a.lk, a.dk)
    ELSE IF ex.err THEN Out("e_stat", "", root, a.lk, a.dk)
    ELSE IF ~ex.ok THEN Out("e_notarget", "", root, a.lk, a.dk)
    ELSE CreateCreated(CreateShortcut(root, a.target, a.name, menu.path, a.F), a)

CreateLinkOrShortcut(root, lk, dk, clock, target, name, syncDir, isShortcut, hasDelegates, F) ==
    IF ~isShortcut
    THEN CreateSymbolicLink(root, lk, dk, clock, target, name, syncDir, F)
    ELSE IF ~hasDelegates THEN Out("e_unsupported", "", root, lk, dk)
    ELSE CreateBased(root, GetStartMenuProgramsPath(F), PathExists(root, target),
                     [lk |-> lk, dk |-> dk, clock |-> clock, target |-> target,
                      name |-> name, F |-> F])

\* RemoveLinkOrShortcut(linkName), the shortcut branch from its last step to
\* its first.  t: what the removal of the shortcut file came to.
RemoveForgotten(t, rl) ==
    IF rl.err THEN Out("e_persist", t.note, t.fs, rl.links, rl.disk)
    ELSE IF t.removalErr # "ok" THEN Out(t.removalErr, t.note, t.fs, rl.links, rl.disk)
    ELSE Out("ok", t.note, t.fs, rl.links, rl.disk)

RemoveTriedAborting(t, a) ==
    IF t.removalErr # "ok" THEN Out(t.removalErr, t.note, t.fs, a.lk, a.dk)
    ELSE RemoveForgotten(t, RemoveLink(a.lk, a.dk, a.name, "persist" \in a.F))

RemoveTried(t, a) == RemoveForgotten(t, RemoveLink(a.lk, a.dk, a.name, "persist" \in a.F))

RemoveDeleted(rs) ==
    [removalErr |-> IF rs.err THEN "e_rmlnk" ELSE "ok", note |-> "", fs |-> rs.fs]

RemoveBased(root, menu, a) ==
    IF menu.err
    THEN [removalErr |-> "ok", note |-> "shortcut removal not attempted", fs |-> root]
    ELSE RemoveDeleted(RemoveShortcut(root, a.name, menu.path, a.F))

RemoveLooked(root, g, hasDelegates, a) ==
    IF ~g.exists THEN Out("e_unknown", "", root, a.lk, a.dk)
    ELSE IF ~g.info.Shortcut THEN RemoveSymbolicLink(root, a.lk, a.dk, a.name, a.F)
    ELSE RemoveTried(IF ~hasDelegates
                     THEN [removalErr |-> "e_unsupported",
                           note |-> "shortcut removal not attempted", fs |-> root]
                     ELSE RemoveBased(root, GetStartMenuProgramsPath(a.F), a),
                     a)

RemoveLinkOrShortcut(root, lk, dk, name, hasDelegates, F) ==
    RemoveLooked(root, GetLink(lk, name), hasDelegates,
                 [lk |-> lk, dk |-> dk, name |-> name, F |-> F])

\* RelinkLinkOrShortcut(linkName), the shortcut branch from its last step to
\* its first
RelinkAgain(rs, a) ==
    IF rs.err THEN Out("e_relnk", "", rs.fs, a.lk, a.dk)
    ELSE Out("ok", "", rs.fs, a.lk, a.dk)

RelinkBased(root, menu, info, a) ==
    IF menu.err THEN Out("e_menu", "", root, a.lk, a.dk)
    ELSE RelinkAgain(RelinkShortcut(root, a.name, menu.path, info, a.F), a)

RelinkLooked(root, g, hasDelegates, a) ==
    IF ~g.exists THEN Out("e_unknown", "", root, a.lk, a.dk)
    ELSE IF ~g.info.Shortcut THEN RelinkSymbolicLink(root, a.lk, a.dk, a.name, a.F)
    ELSE IF ~hasDelegates THEN Out("e_unsupported", "", root, a.lk, a.dk)
    ELSE RelinkBased(root, GetStartMenuProgramsPath(a.F), g.info, a)

RelinkLinkOrShortcut(root, lk, dk, name, hasDelegates, F) ==
    RelinkLooked(root, GetLink(lk, name), hasDelegates,
                 [lk |-> lk, dk |-> dk, name |-> name, F |-> F])

----------------------------------------------------------------------------
(* The engine driven by its callers, one call at a time *)

LinkNames == {"a"}
SyncDir == <<"sync">>
Targets == {<<"home", "f">>, <<"home", "d">>}

\* The faults that the steps of one call may meet
Faults == {"mkdir", "rename", "copy", "copypart", "rmsrc", "symlink", "persist",
           "rm", "readlink", "menu", "mklnk"}
FaultSets == {{}} \cup {{x} : x \in Faults}
                  \cup {{"symlink", "back"}, {"persist", "rm"}}

\* What the user's files look like before the program is first run
HomeDir == Dir([n \in {"f", "d", "t"} |->
                  IF n = "f" THEN File(1)
                  ELSE IF n = "t" THEN File(4)
                  ELSE Dir([m \in {"p", "q"} |->
                              IF m = "p" THEN File(2) ELSE Symlink(<<"home", "f">>)])])
InitFs == Dir([n \in {"home", "sync"} |-> IF n = "home" THEN HomeDir ELSE EmptyDir])

NoCall == [op |-> "none", name |-> "", target |-> NoPath, shortcut |-> FALSE,
           res |-> "", note |-> "", faulted |-> FALSE,
           pre |-> [fs |-> NoNode, links |-> NoLinks, disk |-> NoLinks]]
Call(op, name, target, shortcut, o) ==
    [op |-> op, name |-> name, target |-> target, shortcut |-> shortcut,
     res |-> o.res, note |-> o.note, faulted |-> faultSteps' # faultSteps,
     pre |-> [fs |-> fs, links |-> links, disk |-> disk]]

Idle == [phase |-> "idle"]

\* The registry a config.json brought over from a Windows host holds: the
\* record of a shortcut, on a build that has no shortcut delegates
CarriedLinks ==
    [n \in LinkNames |->
        LinkInfo(TRUE, <<"home", "t">>, <<"menu", LnkName(n)>>, 0)]

Init ==
    /\ fs = InitFs
    /\ now = 1
    /\ xdev \in BOOLEAN
    /\ platform \in BOOLEAN
    /\ links \in IF platform THEN {NoLinks} ELSE {NoLinks, CarriedLinks}
    /\ disk = links
    /\ envSteps = 0
    /\ faultSteps = 0
    /\ last = NoCall
    /\ mv = Idle
    /\ bulk = Idle
    /\ ld = Idle
    /\ rg = Idle

\* A call that meets the faults F uses up one of the run's faulty calls
Faulty(F) ==
    /\ F # {} => faultSteps < MaxFaults
    /\ faultSteps' = IF F = {} THEN faultSteps ELSE faultSteps + 1

\* link <target> [-n name] [--shortcut]
Create(target, name, isShortcut, F) ==
    /\ now < MaxTime
    /\ Faulty(F)
    /\ \E o \in {CreateLinkOrShortcut(fs, links, disk, now, target, name, SyncDir,
                                      isShortcut, platform, F)} :
           /\ fs' = o.fs
           /\ links' = o.links
           /\ disk' = o.disk
           /\ now' = IF o.links # links THEN now + 1 ELSE now
           /\ last' = Call("create", name, target, isShortcut, o)
    /\ UNCHANGED <<xdev, platform, envSteps, mv, bulk, ld, rg>>

\* unlink <name>
Remove(name, F) ==
    /\ Faulty(F)
    /\ \E o \in {RemoveLinkOrShortcut(fs, links, disk, name, platform, F)} :
           /\ fs' = o.fs
           /\ links' = o.links
           /\ disk' = o.disk
           /\ last' = Call("remove", name, NoPath, FALSE, o)
    /\ UNCHANGED <<now, xdev, platform, envSteps, mv, bulk, ld, rg>>

\* relink <name>
Relink(name, F) ==
    /\ Faulty(F)
    /\ \E o \in {RelinkLinkOrShortcut(fs, links, disk, name, platform, F)} :
           /\ fs' = o.fs
           /\ links' = o.links
           /\ disk' = o.disk
           /\ last' = Call("relink", name, NoPath, FALSE, o)
    /\ UNCHANGED <<now, xdev, platform, envSteps, mv, bulk, ld, rg>>

\* What something outside the program may put at which path: anything at the
\* user's own paths, foreign or no content at the synced paths, no shortcut.
Foreign == {NoNode, File(0), File(3), EmptyDir, Dir([n \in {"z"} |-> File(3)]),
            Symlink(<<"home", "o">>), Symlink(<<"home", "t">>), Symlink(<<"home", "d">>)}
EnvChanges ==
    (Targets \X Foreign)
    \cup ({FilesDir(SyncDir) \o <<n>> : n \in LinkNames} \X {NoNode, File(3)})
    \cup ({SyncDir \o <<n>> : n \in LinkNames} \X {NoNode, Dir([n \in {"z"} |-> File(3)])})
    \cup ({<<"menu", LnkName(n)>> : n \in LinkNames} \X {NoNode})

\* The user, or another program, replaces or deletes what is at a path
Env(p, x) ==
    /\ envSteps < MaxEnv
    /\ \E l \in {Lstat(fs, p)} :
           /\ l.st = "ok" \/ (l.st = "noent" /\ l.mk /\ x # NoNode)
           /\ l.n # x
           /\ fs' = PutAt(fs, l.rp, x)
    /\ envSteps' = envSteps + 1
    /\ last' = NoCall
    /\ UNCHANGED <<links, disk, now, xdev, platform, faultSteps, mv, bulk, ld, rg>>

Next ==
    \/ \E t \in Targets, n \in LinkNames, k \in BOOLEAN, F \in FaultSets :
           Create(t, n, k, F)
    \/ \E n \in LinkNames, F \in FaultSets : Remove(n, F)
    \/ \E n \in LinkNames, F \in FaultSets : Relink(n, F)
    \/ \E c \in EnvChanges : Env(c[1], c[2])

Spec == Init /\ [][Next]_vars

----------------------------------------------------------------------------
(* Properties of single engine calls *)

\* the state before the last call
Pre == last.pre
\* what a path held, symbolic links followed / not followed
ContentAt(root, p) == Stat(root, p).n
EntryAt(root, p) == Lstat(root, p).n
Absent(root, p) == Lstat(root, p).st = "noent"

\* the synced path CreateSymbolicLink computes for a target
SyncedPathOf(root, target, name) ==
    IF IsFile(root, target) THEN FilesDir(SyncDir) \o <<name>> ELSE SyncDir \o <<name>>
ShortcutPathOf(name) == <<"menu", LnkName(name)>>

\* a tree without its entries that are neither directories nor regular files
RECURSIVE OnlyRegular(_)
OnlyRegular(n) ==
    IF n.k # "dir" THEN n
    ELSE Dir([h \in {x \in DOMAIN n.e : n.e[x].k = "dir" \/ IsRegular(n.e[x])} |->
                OnlyRegular(n.e[h])])

\* C1: a create under a name that is already registered, of either kind,
\* returns an error and leaves the record, the persisted registry and the
\* filesystem as they were.
C1_DuplicateNameRejected ==
    (last.op = "create" /\ last.name \in DOMAIN Pre.links)
        => /\ last.res # "ok"
           /\ links = Pre.links
           /\ disk = Pre.disk
           /\ fs = Pre.fs

\* The same for the Symlink kind alone, which CreateSymbolicLink checks itself
DuplicateSymlinkRejected ==
    (last.op = "create" /\ ~last.shortcut /\ last.name \in DOMAIN Pre.links)
        => last.res # "ok" /\ links = Pre.links /\ disk = Pre.disk /\ fs = Pre.fs

\* C2: round trip.  A successful create of an unregistered name for a file or
\* directory, directly followed by a successful remove of that name, leaves
\* the original path with its original content, nothing at the synced path
\* and no record; for a shortcut the target is unchanged, the shortcut file is
\* gone and no record remains.
C2_RoundTrip ==
    [][ ( /\ last.op = "create" /\ last.res = "ok"
          /\ last.name \notin DOMAIN Pre.links
          /\ EntryAt(Pre.fs, last.target).k \in {"file", "dir"}
          /\ last'.op = "remove" /\ last'.name = last.name /\ last'.res = "ok" )
        => /\ last.name \notin DOMAIN links'
           /\ last.name \notin DOMAIN disk'
           /\ EntryAt(fs', last.target) = EntryAt(Pre.fs, last.target)
           /\ Absent(fs', links[last.name].SyncedPath) ]_vars

\* C3 as stated: after a successful Symlink-kind create the record holds the
\* target and the computed synced path, the original path is a symbolic link
\* to the synced path, and the synced path holds what the target held.
C3_CreateLinkedExact ==
    ( /\ last.op = "create" /\ ~last.shortcut /\ last.res = "ok"
      /\ EntryAt(Pre.fs, last.target).k \in {"file", "dir"} )
        => LET synced == SyncedPathOf(Pre.fs, last.target, last.name)
           IN  /\ last.name \in DOMAIN links
               /\ links[last.name] =
                      LinkInfo(FALSE, last.target, synced, links[last.name].CreatedAt)
               /\ EntryAt(fs, last.target) = Symlink(synced)
               /\ ContentAt(fs, synced) = ContentAt(Pre.fs, last.target)

\* C3 amended: the same, except that after a move across devices the synced
\* path holds the target's directories and regular files only.
C3_CreateLinked ==
    ( /\ last.op = "create" /\ ~last.shortcut /\ last.res = "ok"
      /\ EntryAt(Pre.fs, last.target).k \in {"file", "dir"} )
        => LET synced == SyncedPathOf(Pre.fs, last.target, last.name)
               was == ContentAt(Pre.fs, last.target)
           IN  /\ last.name \in DOMAIN links
               /\ links[last.name] =
                      LinkInfo(FALSE, last.target, synced, links[last.name].CreatedAt)
               /\ disk = links
               /\ EntryAt(fs, last.target) = Symlink(synced)
               /\ ContentAt(fs, synced) = IF xdev THEN OnlyRegular(was) ELSE was

C3_Witness ==
    /\ last.op = "create" /\ ~last.shortcut /\ last.res = "ok"
    /\ EntryAt(Pre.fs, last.target).k = "dir"
    /\ xdev
    /\ ContentAt(fs, SyncDir \o <<last.name>>) # ContentAt(Pre.fs, last.target)

\* C4: relink of a Symlink record whose original path is a symbolic link to
\* the record's synced path returns success and changes nothing.
C4_RelinkNoOp ==
    ( /\ last.op = "relink" /\ last.name \in DOMAIN Pre.links
      /\ ~Pre.links[last.name].Shortcut
      /\ EntryAt(Pre.fs, Pre.links[last.name].OriginalPath)
             = Symlink(Pre.links[last.name].SyncedPath) )
        => /\ last.res = "ok"
           /\ fs = Pre.fs /\ links = Pre.links /\ disk = Pre.disk

\* The same when the synced path still exists
RelinkNoOpWhenSyncedExists ==
    ( /\ last.op = "relink" /\ last.name \in DOMAIN Pre.links
      /\ ~Pre.links[last.name].Shortcut
      /\ EntryAt(Pre.fs, Pre.links[last.name].OriginalPath)
             = Symlink(Pre.links[last.name].SyncedPath)
      /\ PathExists(Pre.fs, Pre.links[last.name].SyncedPath).ok )
        => /\ last.res = "ok"
           /\ fs = Pre.fs /\ links = Pre.links /\ disk = Pre.disk

\* the original path of a record is occupied by something that is no symbolic
\* link and is not empty
Occupied(root, info) ==
    LET n == EntryAt(root, info.OriginalPath)
    IN  \/ n.k = "dir" /\ n # EmptyDir
        \/ n.k = "file" /\ n.c # 0
        \/ n.k = "lnk"

\* C5: remove of a Symlink record whose original path holds non-empty content
\* that is no symbolic link returns an error, leaves that content and the
\* synced data where they are, and removes the record.
C5_RemoveConflictKeepsData ==
    ( /\ last.op = "remove" /\ last.name \in DOMAIN Pre.links
      /\ ~Pre.links[last.name].Shortcut
      /\ Occupied(Pre.fs, Pre.links[last.name]) )
        => /\ last.res # "ok"
           /\ fs = Pre.fs
           /\ last.name \notin DOMAIN links

C5_Witness ==
    /\ last.op = "remove" /\ last.name \in DOMAIN Pre.links
    /\ ~Pre.links[last.name].Shortcut
    /\ Occupied(Pre.fs, Pre.links[last.name])
    /\ PathExists(Pre.fs, Pre.links[last.name].SyncedPath).ok
    /\ last.res = "e_conflict"

\* a call that needs the shortcut delegates on a build without them
Unsupported ==
    /\ ~platform
    /\ \/ last.op = "create" /\ last.shortcut
       \/ /\ last.op \in {"remove", "relink"}
          /\ last.name \in DOMAIN Pre.links
          /\ Pre.links[last.name].Shortcut

\* C17: without the shortcut delegates, a create, a remove and a relink of a
\* Shortcut-kind link each return an error and leave the registry in memory,
\* the persisted registry and the filesystem as they were; after the rejected
\* remove the record is still registered.
C17_UnsupportedHasNoEffect ==
    Unsupported
        => /\ last.res # "ok"
           /\ links = Pre.links
           /\ disk = Pre.disk
           /\ fs = Pre.fs

\* What holds of the three: each returns an error and leaves the filesystem
\* alone; the create and the relink leave the registry alone as well
UnsupportedIsReported ==
    Unsupported
        => /\ last.res # "ok"
           /\ fs = Pre.fs
           /\ last.op \in {"create", "relink"}
                  => links = Pre.links /\ disk = Pre.disk

\* The remove without delegates takes the record out of the registry anyway
UnsupportedRemoveForgets ==
    (Unsupported /\ last.op = "remove")
        => /\ last.name \notin DOMAIN links
           /\ last.res = "e_unsupported" => last.name \notin DOMAIN disk

\* C18: when RemoveSymbolicLink returns an error because deleting the
\* symbolic link failed or because moving the synced data back failed, the
\* record of the name is still in the registry in memory, and the persisted
\* registry is as it was, the record in it if it was in it before the call.
C18_RemoveKeepsRecordOnFailure ==
    (last.op = "remove" /\ last.res \in {"e_rmlink", "e_moveback"})
        => /\ last.name \in DOMAIN Pre.links
           /\ ~Pre.links[last.name].Shortcut
           /\ links = Pre.links
           /\ disk = Pre.disk
           /\ last.name \in DOMAIN Pre.disk => last.name \in DOMAIN disk

\* the move back has failed after the symbolic link was deleted: the data is
\* at the synced path, nothing is at the original path, the record is there
C18_Witness ==
    /\ last.op = "remove" /\ last.res = "e_moveback"
    /\ last.name \in DOMAIN disk /\ last.name \in DOMAIN links
    /\ IsSymlink(Pre.fs, links[last.name].OriginalPath)
    /\ Absent(fs, links[last.name].OriginalPath)
    /\ PathExists(fs, links[last.name].SyncedPath).ok

\* the deletion of the symbolic link has failed: nothing has changed
RemoveLinkFailureReached ==
    /\ last.op = "remove" /\ last.res = "e_rmlink"
    /\ last.name \in DOMAIN disk /\ fs = Pre.fs

\* C19 as stated: when the move to the synced path succeeded and the creation
\* of the symbolic link fails, CreateSymbolicLink returns an error whether or
\* not the move back succeeds and adds no record; when the move back succeeds
\* the original path holds what it held and nothing is at the synced path.
C19_RollbackExact ==
    (last.op = "create" /\ last.res = "e_symlink")
        => /\ links = Pre.links
           /\ disk = Pre.disk
           /\ last.note = "rolled back"
                  => /\ ContentAt(fs, last.target) = ContentAt(Pre.fs, last.target)
                     /\ Absent(fs, SyncedPathOf(Pre.fs, last.target, last.name))

\* C19: the same for a target that is itself a regular file or a directory,
\* except that after moves across devices the original path holds the
\* directories and regular files of what it held, and no other entries.
C19_Rollback ==
    ( /\ last.op = "create" /\ last.res = "e_symlink"
      /\ EntryAt(Pre.fs, last.target).k \in {"file", "dir"} )
        => /\ links = Pre.links
           /\ disk = Pre.disk
           /\ last.note \in {"rolled back", "rollback failed"}
           /\ last.note = "rolled back"
                  => /\ ContentAt(fs, last.target) =
                            IF xdev THEN OnlyRegular(ContentAt(Pre.fs, last.target))
                            ELSE ContentAt(Pre.fs, last.target)
                     /\ Absent(fs, SyncedPathOf(Pre.fs, last.target, last.name))

\* the move back across devices has succeeded and has not brought back an
\* entry that is neither a directory nor a regular file
C19_Witness ==
    /\ last.op = "create" /\ last.res = "e_symlink" /\ last.note = "rolled back"
    /\ EntryAt(Pre.fs, last.target).k = "dir"
    /\ xdev
    /\ last.name \notin DOMAIN links
    /\ ContentAt(fs, last.target) # ContentAt(Pre.fs, last.target)
    /\ Absent(fs, SyncedPathOf(Pre.fs, last.target, last.name))

\* the move back has failed: the error is returned, the data is at the synced
\* path and no record was added
RollbackFailureReached ==
    /\ last.op = "create" /\ last.res = "e_symlink" /\ last.note = "rollback failed"
    /\ last.name \notin DOMAIN links
    /\ Absent(fs, last.target)
    /\ PathExists(fs, SyncedPathOf(Pre.fs, last.target, last.name)).ok

\* C20: a Symlink-kind create returns success only when the new record was
\* saved; when the move and the creation of the symbolic link succeeded and
\* the save fails it returns an error, and the moved data and the symbolic
\* link stay where they are: the original path is a symbolic link to the
\* synced path, the synced path holds the data that was moved, and the
\* persisted registry does not hold the new record.
C20_CreateUnsavedKeepsLink ==
    /\ (last.op = "create" /\ ~last.shortcut /\ last.res = "ok")
           => last.name \in DOMAIN disk /\ disk = links
    /\ (last.op = "create" /\ ~last.shortcut /\ last.res = "e_persist")
           => LET synced == SyncedPathOf(Pre.fs, last.target, last.name)
                  was == ContentAt(Pre.fs, last.target)
              IN  /\ EntryAt(fs, last.target) = Symlink(synced)
                  /\ ~Absent(fs, synced)
                  /\ EntryAt(Pre.fs, last.target).k \in {"file", "dir"}
                         => ContentAt(fs, synced) \in {was, OnlyRegular(was)}
                  /\ last.name \in DOMAIN links
                  /\ last.name \in DOMAIN disk
                         => disk[last.name] # links[last.name]

\* the save has failed after the move and the symbolic link were made
C20_Witness ==
    /\ last.op = "create" /\ ~last.shortcut /\ last.res = "e_persist"
    /\ EntryAt(Pre.fs, last.target).k = "dir"
    /\ EntryAt(fs, last.target) = Symlink(SyncDir \o <<last.name>>)
    /\ ContentAt(fs, SyncDir \o <<last.name>>) = ContentAt(Pre.fs, last.target)
    /\ last.name \notin DOMAIN disk

\* C21: a Shortcut-kind create never moves or modifies what is at the target;
\* it returns success only when the record was saved; when the shortcut file
\* was written and the save fails it returns an error after trying to delete
\* the file, and when that deletion succeeded no file is at the shortcut path.
C21_ShortcutCreateCleansUp ==
    (last.op = "create" /\ last.shortcut /\ platform)
        => /\ EntryAt(fs, <<"home">>) = EntryAt(Pre.fs, <<"home">>)
           /\ EntryAt(fs, SyncDir) = EntryAt(Pre.fs, SyncDir)
           /\ last.res = "ok"
                  => /\ last.name \in DOMAIN disk /\ disk = links
                     /\ links[last.name].Shortcut
                     /\ links[last.name].OriginalPath = last.target
           /\ last.res = "e_persist"
                  => /\ last.note \in {"shortcut removed", "shortcut left"}
                     /\ last.note = "shortcut removed"
                            => Absent(fs, ShortcutPathOf(last.name))
                     /\ last.name \in DOMAIN disk
                            => disk[last.name] # links[last.name]

\* the save has failed after the shortcut file was written, and the file is gone
C21_Witness ==
    /\ last.op = "create" /\ last.shortcut /\ platform
    /\ last.res = "e_persist" /\ last.note = "shortcut removed"
    /\ Absent(fs, ShortcutPathOf(last.name))
    /\ last.name \notin DOMAIN disk
    /\ EntryAt(fs, last.target) = EntryAt(Pre.fs, last.target)

\* the deletion of the shortcut file has failed as well: the file is left
ShortcutLeftReached ==
    /\ last.op = "create" /\ last.shortcut /\ last.res = "e_persist"
    /\ last.note = "shortcut left"
    /\ ~Absent(fs, ShortcutPathOf(last.name))

\* a relink of a Symlink record, no step of which failed for a reason of the
\* system's
CleanRelink ==
    /\ last.op = "relink" /\ ~last.faulted
    /\ last.name \in DOMAIN Pre.links
    /\ ~Pre.links[last.name].Shortcut

\* the original path of a record holds no symbolic link to its synced path: it
\* is missing, or it is a symbolic link to somewhere else
Divergent(root, info) ==
    \/ Absent(root, info.OriginalPath)
    \/ /\ EntryAt(root, info.OriginalPath).k = "link"
       /\ EntryAt(root, info.OriginalPath).t # info.SyncedPath

\* C22: for a Symlink record whose synced path exists, when the original path
\* is missing or is a symbolic link to another target, existing or not,
\* RelinkSymbolicLink returns success and the original path is then a symbolic
\* link to the synced path.
C22_RelinkRepairs ==
    ( /\ CleanRelink
      /\ PathExists(Pre.fs, Pre.links[last.name].SyncedPath).ok
      /\ Divergent(Pre.fs, Pre.links[last.name]) )
        => /\ last.res = "ok"
           /\ EntryAt(fs, Pre.links[last.name].OriginalPath)
                  = Symlink(Pre.links[last.name].SyncedPath)

\* What holds: the same when the other target of the symbolic link exists
RelinkRepairsLiveLinks ==
    ( /\ CleanRelink
      /\ PathExists(Pre.fs, Pre.links[last.name].SyncedPath).ok
      /\ Divergent(Pre.fs, Pre.links[last.name])
      /\ \/ Absent(Pre.fs, Pre.links[last.name].OriginalPath)
         \/ PathExists(Pre.fs, Pre.links[last.name].OriginalPath).ok )
        => /\ last.res = "ok"
           /\ EntryAt(fs, Pre.links[last.name].OriginalPath)
                  = Symlink(Pre.links[last.name].SyncedPath)
           /\ links = Pre.links /\ disk = Pre.disk

\* a relink has replaced a symbolic link to another, existing target
RelinkRepairReached ==
    /\ CleanRelink /\ last.res = "ok"
    /\ EntryAt(Pre.fs, Pre.links[last.name].OriginalPath).k = "link"
    /\ EntryAt(Pre.fs, Pre.links[last.name].OriginalPath).t
           # Pre.links[last.name].SyncedPath
    /\ EntryAt(fs, Pre.links[last.name].OriginalPath)
           = Symlink(Pre.links[last.name].SyncedPath)

\* C23: when the original path of a Symlink record exists and is no symbolic
\* link, RelinkSymbolicLink returns an error and leaves the filesystem, with
\* the content at the original path and at the synced path, and the registry
\* as they were.
C23_RelinkConflictRefused ==
    ( /\ last.op = "relink" /\ last.name \in DOMAIN Pre.links
      /\ ~Pre.links[last.name].Shortcut
      /\ ~Absent(Pre.fs, Pre.links[last.name].OriginalPath)
      /\ EntryAt(Pre.fs, Pre.links[last.name].OriginalPath).k # "link" )
        => /\ last.res # "ok"
           /\ fs = Pre.fs
           /\ links = Pre.links
           /\ disk = Pre.disk

\* a relink has been refused over a file at the original path, with the data
\* at the synced path
C23_Witness ==
    /\ last.op = "relink" /\ last.name \in DOMAIN Pre.links
    /\ last.res = "e_conflict"
    /\ EntryAt(fs, links[last.name].OriginalPath).k \in {"file", "dir"}
    /\ PathExists(fs, links[last.name].SyncedPath).ok
    /\ fs = Pre.fs

\* C24: when the original path of a Symlink record is missing or is a symbolic
\* link to another target, and the synced path does not exist,
\* RelinkSymbolicLink returns an error and makes no symbolic link at the
\* original path: a symbolic link there afterwards is the one that was there.
C24_RelinkNeedsSynced ==
    ( /\ last.op = "relink" /\ last.name \in DOMAIN Pre.links
      /\ ~Pre.links[last.name].Shortcut
      /\ Divergent(Pre.fs, Pre.links[last.name])
      /\ ~PathExists(Pre.fs, Pre.links[last.name].SyncedPath).ok )
        => /\ last.res # "ok"
           /\ \/ Absent(fs, Pre.links[last.name].OriginalPath)
              \/ EntryAt(fs, Pre.links[last.name].OriginalPath)
                     = EntryAt(Pre.fs, Pre.links[last.name].OriginalPath)
           /\ links = Pre.links
           /\ disk = Pre.disk

\* a relink has failed for want of the synced path, after it deleted the
\* symbolic link to another target that was at the original path
C24_Witness ==
    /\ last.op = "relink" /\ last.name \in DOMAIN Pre.links
    /\ ~last.faulted
    /\ last.res = "e_nosynced"
    /\ Divergent(Pre.fs, Pre.links[last.name])
    /\ PathExists(Pre.fs, Pre.links[last.name].OriginalPath).ok
    /\ ~PathExists(fs, links[last.name].SyncedPath).ok
    /\ Absent(fs, links[last.name].OriginalPath)

\* C34: whenever RelinkSymbolicLink returns an error the original path is as
\* it was before the call; a symbolic link to an unexpected target is still
\* there when the synced path turns out to be missing.
C34_FailedRelinkNoEffect ==
    ( /\ last.op = "relink" /\ last.name \in DOMAIN Pre.links
      /\ ~Pre.links[last.name].Shortcut
      /\ last.res # "ok" )
        => Lstat(fs, Pre.links[last.name].OriginalPath)
               = Lstat(Pre.fs, Pre.links[last.name].OriginalPath)

\* What does hold: a relink that fails before it has deleted anything (a
\* conflict, a link that cannot be removed) leaves the filesystem as it was
FailedRelinkOfNoLinkNoEffect ==
    ( /\ last.op = "relink" /\ last.name \in DOMAIN Pre.links
      /\ ~Pre.links[last.name].Shortcut
      /\ last.res # "ok"
      /\ EntryAt(Pre.fs, Pre.links[last.name].OriginalPath).k # "link" )
        => fs = Pre.fs


\* a remove of a Symlink record whose original path is a symbolic link to the
\* synced path, no step of which failed for a reason of the system's
CleanRemoveOfLinked ==
    /\ last.op = "remove" /\ ~last.faulted
    /\ last.name \in DOMAIN Pre.links
    /\ ~Pre.links[last.name].Shortcut
    /\ EntryAt(Pre.fs, Pre.links[last.name].OriginalPath)
           = Symlink(Pre.links[last.name].SyncedPath)

\* C25: when the original path is the symbolic link to the synced path and
\* the synced path no longer exists, RemoveSymbolicLink moves nothing back,
\* removes the record from the registry in memory and on disk, and returns
\* success.
C25_RemoveWithLostData ==
    ( /\ CleanRemoveOfLinked
      /\ ~PathExists(Pre.fs, Pre.links[last.name].SyncedPath).ok )
        => /\ last.res = "ok"
           /\ last.note = "synced data missing"
           /\ last.name \notin DOMAIN links
           /\ disk = links
           /\ PutAt(fs, Pre.links[last.name].OriginalPath, NoNode)
                  = PutAt(Pre.fs, Pre.links[last.name].OriginalPath, NoNode)

\* the record of a link whose data is lost has been removed
C25_Witness ==
    /\ CleanRemoveOfLinked
    /\ Absent(Pre.fs, Pre.links[last.name].SyncedPath)
    /\ last.res = "ok"
    /\ last.name \notin DOMAIN links /\ last.name \notin DOMAIN disk

\* C26: when the original path of a Symlink record is a symbolic link, a
\* dangling one included, a RemoveSymbolicLink that returns success has
\* deleted it: no symbolic link is at the original path afterwards.
C26_RemoveDeletesLink ==
    ( /\ last.op = "remove" /\ last.res = "ok"
      /\ last.name \in DOMAIN Pre.links
      /\ ~Pre.links[last.name].Shortcut
      /\ EntryAt(Pre.fs, Pre.links[last.name].OriginalPath).k = "link" )
        => EntryAt(fs, Pre.links[last.name].OriginalPath).k # "link"

\* What holds: the same for a symbolic link whose target exists, when what is
\* moved back is no symbolic link itself
RemoveDeletesLiveLink ==
    ( /\ last.op = "remove" /\ last.res = "ok"
      /\ last.name \in DOMAIN Pre.links
      /\ ~Pre.links[last.name].Shortcut
      /\ EntryAt(Pre.fs, Pre.links[last.name].OriginalPath).k = "link"
      /\ PathExists(Pre.fs, Pre.links[last.name].OriginalPath).ok
      /\ EntryAt(Pre.fs, Pre.links[last.name].SyncedPath).k # "link" )
        => EntryAt(fs, Pre.links[last.name].OriginalPath).k # "link"

\* a remove of a Shortcut record on a build that has the shortcut delegates
ShortcutRemove ==
    /\ last.op = "remove" /\ platform
    /\ last.name \in DOMAIN Pre.links
    /\ Pre.links[last.name].Shortcut

\* C27: when the removal of the shortcut file returns an error,
\* RemoveLinkOrShortcut still removes the record of the name, from the
\* registry in memory and on disk, and returns the error of the removal; it
\* returns success after an attempted removal only when no shortcut file is
\* left.
C27_ShortcutRemoveContinues ==
    ShortcutRemove
        => /\ last.name \notin DOMAIN links
           /\ last.res = "e_rmlnk"
                  => /\ last.name \notin DOMAIN disk
                     /\ disk = links
                     /\ fs = Pre.fs
           /\ (last.res = "ok" /\ last.note # "shortcut removal not attempted")
                  => Absent(fs, ShortcutPathOf(last.name))

\* the removal of the shortcut file has failed and the record is gone
C27_Witness ==
    /\ ShortcutRemove
    /\ last.res = "e_rmlnk"
    /\ ~Absent(fs, ShortcutPathOf(last.name))
    /\ last.name \notin DOMAIN links /\ last.name \notin DOMAIN disk

\* C28: RemoveLinkOrShortcut on a Shortcut record returns success only when
\* the removal of the shortcut file was carried out without error: the
\* removal was attempted and no shortcut file is left; when the start menu
\* directory cannot be resolved it does not return success.
C28_NoSilentSuccess ==
    (ShortcutRemove /\ last.res = "ok")
        => /\ last.note # "shortcut removal not attempted"
           /\ Absent(fs, ShortcutPathOf(last.name))

\* What holds: success after an attempted removal leaves no shortcut file and
\* no record
AttemptedRemovalSucceeds ==
    (ShortcutRemove /\ last.res = "ok" /\ last.note # "shortcut removal not attempted")
        => /\ Absent(fs, ShortcutPathOf(last.name))
           /\ last.name \notin DOMAIN links
           /\ last.name \notin DOMAIN disk

\* success was returned with the shortcut file still in place
SilentSuccessReached ==
    /\ ShortcutRemove /\ last.res = "ok"
    /\ last.note = "shortcut removal not attempted"
    /\ ~Absent(fs, ShortcutPathOf(last.name))
    /\ last.name \notin DOMAIN links

\* a Symlink-kind create of an unregistered name for a directory
DirCreate ==
    /\ last.op = "create" /\ ~last.shortcut
    /\ last.name \notin DOMAIN Pre.links
    /\ IsDir(Pre.fs, last.target)

\* C31: a Symlink-kind create for a directory whose synced path
\* syncDirectory/<name> already holds something returns an error and leaves
\* the whole filesystem (the target directory and what the synced path holds
\* with it), the registry and the persisted registry as they were.
C31_DirAntiClobber ==
    (DirCreate /\ ~Absent(Pre.fs, SyncDir \o <<last.name>>))
        => /\ last.res # "ok"
           /\ fs = Pre.fs
           /\ links = Pre.links
           /\ disk = Pre.disk

\* a directory create was refused because its synced path was taken
C31_Witness ==
    /\ DirCreate /\ PathExists(Pre.fs, SyncDir \o <<last.name>>).ok
    /\ EntryAt(Pre.fs, last.target).k = "dir"
    /\ ~last.faulted
    /\ last.res = "e_clobber"


----------------------------------------------------------------------------
(* unlink and relink of a link registered by an earlier run, whatever has
   become of its two paths since *)

\* What may be at the original path, and at the synced path, of the link
OriginalStates(synced) ==
    {NoNode, Symlink(synced), Symlink(<<"home", "t">>), Symlink(<<"home", "o">>),
     File(0), File(3), EmptyDir, Dir([n \in {"z"} |-> File(3)])}
SyncedStates(target) ==
    {NoNode, IF target = <<"home", "f">> THEN File(1) ELSE Dir([n \in {"p"} |-> File(2)])}
SyncedOf(target) ==
    IF target = <<"home", "f">> THEN FilesDir(SyncDir) \o <<"a">> ELSE SyncDir \o <<"a">>

\* The sync directory of an earlier run, and the user's other files
LinkBase ==
    Dir([n \in {"home", "sync"} |->
            IF n = "home" THEN Dir([m \in {"t"} |-> File(4)])
            ELSE Dir([m \in {"files"} |-> EmptyDir])])

InitLink ==
    /\ \E t \in Targets :
          /\ links = [n \in {"a"} |-> LinkInfo(FALSE, t, SyncedOf(t), 0)]
          /\ \E o \in OriginalStates(SyncedOf(t)), y \in SyncedStates(t) :
                 fs = PutAt(PutAt(LinkBase, t, o), SyncedOf(t), y)
    /\ disk = links
    /\ now = 1
    /\ xdev \in BOOLEAN
    /\ platform = FALSE
    /\ envSteps = 0
    /\ faultSteps = 0
    /\ last = NoCall
    /\ mv = Idle
    /\ bulk = Idle
    /\ ld = Idle
    /\ rg = Idle

NextLink ==
    \/ \E n \in LinkNames, F \in FaultSets : Remove(n, F)
    \/ \E n \in LinkNames, F \in FaultSets : Relink(n, F)

SpecLink == InitLink /\ [][NextLink]_vars

----------------------------------------------------------------------------
(* MoveFileOrDir on its own: one move of a source tree to a destination *)

MoveSrc == <<"home", "s">>
MoveDst == <<"sync", "d">>

Leaves == {File(0), File(1), Symlink(<<"home", "t">>), Device}
DirsOver(names, S) == {Dir(e) : e \in UNION {[D -> S] : D \in SUBSET names}}
FlatDirs == DirsOver({"p", "q"}, Leaves \cup {EmptyDir})
SrcTrees == (Leaves \ {Device}) \cup FlatDirs
            \cup {Dir([n \in {"p"} |-> t]) : t \in FlatDirs}
DstBefore == {NoNode, EmptyDir, File(3),
              Dir([n \in {"z"} |-> File(3)]), Dir([n \in {"p"} |-> File(3)]),
              Dir([n \in {"p"} |-> EmptyDir]),
              Dir([n \in {"p"} |-> Symlink(<<"home", "t">>)]),
              Symlink(MoveSrc), Symlink(<<"home", "o">>)}
MoveBase == Dir([n \in {"home", "sync"} |->
                    IF n = "home" THEN Dir([h \in {"t"} |-> File(4)]) ELSE EmptyDir])

InitMove ==
    /\ \E s \in SrcTrees, d \in DstBefore :
           fs = PutAt(PutAt(MoveBase, MoveSrc, s), MoveDst, d)
    /\ xdev \in BOOLEAN
    /\ mv = [phase |-> "ready"]
    /\ links = NoLinks /\ disk = NoLinks /\ now = 1 /\ platform = FALSE
    /\ envSteps = 0 /\ faultSteps = 0 /\ last = NoCall
    /\ bulk = Idle /\ ld = Idle /\ rg = Idle

MoveStep(fault) ==
    /\ mv.phase = "ready"
    /\ \E o \in {MoveFileOrDir(fs, MoveSrc, MoveDst, fault)} :
           /\ fs' = o.fs
           /\ mv' = [phase |-> "done", fault |-> fault, err |-> o.err,
                     copied |-> o.copied, pre |-> fs]
    /\ UNCHANGED <<links, disk, now, xdev, platform, envSteps, faultSteps, last, bulk, ld, rg>>

NextMove == \E f \in MoveFaults : MoveStep(f)

SpecMove == InitMove /\ [][NextMove]_vars

\* the move took the copy-then-delete fallback and returned success
MovedByCopy == mv.phase = "done" /\ mv.copied /\ ~mv.err

\* the tree t is found at path p, symbolic links followed
RECURSIVE HoldsAt(_, _, _)
HoldsAt(root, p, t) ==
    IF t.k = "dir"
    THEN IsDir(root, p) /\ \A h \in DOMAIN t.e : HoldsAt(root, Append(p, h), t.e[h])
    ELSE ContentAt(root, p) = t

\* C9 as stated: after a successful cross-device move the destination holds
\* a tree identical to the source tree, every entry included, and the source
\* path no longer exists.
C9_MoveExact ==
    (MovedByCopy /\ EntryAt(mv.pre, MoveSrc).k \in {"file", "dir"}
                 /\ Absent(mv.pre, MoveDst))
        => /\ EntryAt(fs, MoveDst) = EntryAt(mv.pre, MoveSrc)
           /\ Absent(fs, MoveSrc)

\* C9 amended: after a successful cross-device move of a regular file or a
\* directory to a destination that is absent or holds directories and regular
\* files only, the destination holds every directory and regular file of the
\* source tree with the same content (and nothing else when it was absent),
\* the other entries of the source are not copied, and the source path no
\* longer exists.
C9_Move ==
    LET src == EntryAt(mv.pre, MoveSrc)
        dst == EntryAt(mv.pre, MoveDst)
    IN  ( /\ MovedByCopy /\ src.k \in {"file", "dir"}
          /\ dst.k \in {"none", "file", "dir"} /\ OnlyRegular(dst) = dst )
            => /\ HoldsAt(fs, MoveDst, OnlyRegular(src))
               /\ dst = NoNode => EntryAt(fs, MoveDst) = OnlyRegular(src)
               /\ Absent(fs, MoveSrc)

C9_Witness ==
    /\ MovedByCopy
    /\ EntryAt(mv.pre, MoveSrc).k = "dir"
    /\ OnlyRegular(EntryAt(mv.pre, MoveSrc)) # EntryAt(mv.pre, MoveSrc)
    /\ OnlyRegular(EntryAt(mv.pre, MoveSrc)) # EmptyDir
    /\ Absent(mv.pre, MoveDst)
    /\ EntryAt(fs, MoveDst) = OnlyRegular(EntryAt(mv.pre, MoveSrc))

\* the rename of the move failed with an error that is no cross-device error
RenameRefused ==
    /\ mv.phase = "done"
    /\ Rename(mv.pre, MoveSrc, MoveDst, mv.fault = "rename").err = "err"

----------------------------------------------------------------------------
(* The bulk commands: relink of all links (cmd/relink.go, one goroutine per
   link) and unlink '*' (cmd/unlink.go, a loop) *)

BulkNames == <<"a", "b", "c", "d">>
Conds == {"linked", "broken", "lost", "conflict"}
BulkFaultSets == {{}, {"symlink"}, {"rm"}}

\* The filesystem and registry in which every link n is in condition cond[n]
HomeOf(cond) ==
    Dir([n \in {m \in DOMAIN cond : cond[m] \in {"linked", "conflict"}} |->
            IF cond[n] = "linked" THEN Symlink(<<"sync", n>>) ELSE File(3)])
SyncOf(cond) ==
    Dir([n \in {m \in DOMAIN cond : cond[m] # "lost"} |-> Dir([h \in {"z"} |-> File(3)])])
FsOf(cond) ==
    Dir([n \in {"home", "sync"} |-> IF n = "home" THEN HomeOf(cond) ELSE SyncOf(cond)])
LinksOf(cond) ==
    [n \in DOMAIN cond |-> LinkInfo(FALSE, <<"home", n>>, <<"sync", n>>, 1)]

AllNames == {BulkNames[i] : i \in 1..MaxWorkers}
ErrOf(o) == IF o.res = "ok" THEN "nil" ELSE "err"

InitBulk ==
    /\ \E k \in 0..MaxWorkers :
       \E cond \in [{BulkNames[i] : i \in 1..k} -> Conds] :
           /\ fs = FsOf(cond)
           /\ links = LinksOf(cond)
           /\ disk = LinksOf(cond)
    /\ bulk = [phase |-> "ready", mode |-> "none", names |-> {},
               pc |-> [n \in AllNames |-> "idle"],
               own |-> [n \in AllNames |-> "none"],
               attempts |-> [n \in AllNames |-> 0],
               lastErr |-> "nil", successCount |-> 0, failCount |-> 0,
               todo |-> {}, returned |-> "none"]
    /\ now = 2 /\ xdev = FALSE /\ platform = FALSE
    /\ envSteps = 0 /\ faultSteps = 0 /\ last = NoCall
    /\ mv = Idle /\ ld = Idle /\ rg = Idle

BulkRest == <<now, xdev, platform, envSteps, last, mv, ld, rg>>

\* relinkAllLinks: the snapshot of the links; an empty registry returns at once
StartRelink ==
    /\ bulk.phase = "ready"
    /\ bulk' = IF DOMAIN links = {}
               THEN [bulk EXCEPT !.phase = "done", !.mode = "relink", !.returned = "nil"]
               ELSE [bulk EXCEPT !.phase = "running", !.mode = "relink",
                                 !.names = DOMAIN links,
                                 !.pc = [n \in AllNames |->
                                            IF n \in DOMAIN links THEN "call" ELSE "idle"]]
    /\ UNCHANGED <<fs, links, disk, faultSteps>>
    /\ UNCHANGED BulkRest

\* a worker's call of link.RelinkLinkOrShortcut
WorkerCall(n, F) ==
    /\ bulk.phase = "running" /\ bulk.mode = "relink" /\ bulk.pc[n] = "call"
    /\ Faulty(F)
    /\ \E o \in {RelinkLinkOrShortcut(fs, links, disk, n, platform, F)} :
           /\ fs' = o.fs
           /\ links' = o.links
           /\ disk' = o.disk
           /\ bulk' = [bulk EXCEPT !.pc[n] = "store", !.own[n] = ErrOf(o),
                                   !.attempts[n] = @ + 1]
    /\ UNCHANGED BulkRest

\* the worker's assignment of the result to the shared lastErr, no lock held
WorkerStore(n) ==
    /\ bulk.phase = "running" /\ bulk.mode = "relink" /\ bulk.pc[n] = "store"
    /\ bulk' = [bulk EXCEPT !.pc[n] = "count", !.lastErr = bulk.own[n]]
    /\ UNCHANGED <<fs, links, disk, faultSteps>>
    /\ UNCHANGED BulkRest

\* the worker's critical section: it reads lastErr and counts
WorkerCount(n) ==
    /\ bulk.phase = "running" /\ bulk.mode = "relink" /\ bulk.pc[n] = "count"
    /\ bulk' = IF bulk.lastErr # "nil"
               THEN [bulk EXCEPT !.pc[n] = "done", !.failCount = @ + 1]
               ELSE [bulk EXCEPT !.pc[n] = "done", !.successCount = @ + 1]
    /\ UNCHANGED <<fs, links, disk, faultSteps>>
    /\ UNCHANGED BulkRest

\* wg.Wait() returns, the totals are printed, relinkAllLinks returns nil
RelinkDone ==
    /\ bulk.phase = "running" /\ bulk.mode = "relink"
    /\ \A n \in bulk.names : bulk.pc[n] = "done"
    /\ bulk' = [bulk EXCEPT !.phase = "done", !.returned = "nil"]
    /\ UNCHANGED <<fs, links, disk, faultSteps>>
    /\ UNCHANGED BulkRest

\* unlink '*': the snapshot of the links
StartUnlink ==
    /\ bulk.phase = "ready"
    /\ bulk' = IF DOMAIN links = {}
               THEN [bulk EXCEPT !.phase = "done", !.mode = "unlink", !.returned = "nil"]
               ELSE [bulk EXCEPT !.phase = "running", !.mode = "unlink",
                                 !.names = DOMAIN links, !.todo = DOMAIN links]
    /\ UNCHANGED <<fs, links, disk, faultSteps>>
    /\ UNCHANGED BulkRest

\* the names the loop of unlink '*' goes on with after the call for n
\* returned err: all the others
LoopRestStopping(todo, n, err) == IF err = "nil" THEN todo \ {n} ELSE {}
LoopRest(todo, n, err) == todo \ {n}

\* one iteration of the loop of unlink '*' (map order: any name not yet taken)
UnlinkStep(n, F) ==
    /\ bulk.phase = "running" /\ bulk.mode = "unlink" /\ n \in bulk.todo
    /\ Faulty(F)
    /\ \E o \in {RemoveLinkOrShortcut(fs, links, disk, n, platform, F)} :
           /\ fs' = o.fs
           /\ links' = o.links
           /\ disk' = o.disk
           /\ bulk' = [bulk EXCEPT !.own[n] = ErrOf(o), !.attempts[n] = @ + 1,
                                   !.todo = LoopRest(bulk.todo, n, ErrOf(o)),
                                   !.successCount = IF ErrOf(o) = "nil" THEN @ + 1 ELSE @]
    /\ UNCHANGED BulkRest

\* the loop is over, the totals are printed, the command returns nil
UnlinkDone ==
    /\ bulk.phase = "running" /\ bulk.mode = "unlink" /\ bulk.todo = {}
    /\ bulk' = [bulk EXCEPT !.phase = "done", !.returned = "nil"]
    /\ UNCHANGED <<fs, links, disk, faultSteps>>
    /\ UNCHANGED BulkRest

NextBulk ==
    \/ StartRelink
    \/ \E n \in AllNames, F \in BulkFaultSets : WorkerCall(n, F)
    \/ \E n \in AllNames : WorkerStore(n)
    \/ \E n \in AllNames : WorkerCount(n)
    \/ RelinkDone
    \/ StartUnlink
    \/ \E n \in AllNames, F \in BulkFaultSets : UnlinkStep(n, F)
    \/ UnlinkDone

SpecBulk == InitBulk /\ [][NextBulk]_vars

\* the links of the snapshot whose own call returned no error, and an error
OwnSuccesses == {n \in bulk.names : bulk.own[n] = "nil"}
OwnFailures == {n \in bulk.names : bulk.own[n] = "err"}

\* C6: when relinkAllLinks has finished, under every interleaving of its
\* workers, the success count is the number of links whose own
\* RelinkLinkOrShortcut call returned no error and the failure count is the
\* number of links whose own call returned an error.
C6_RelinkTallyExact ==
    (bulk.phase = "done" /\ bulk.mode = "relink")
        => /\ bulk.successCount = Cardinality(OwnSuccesses)
           /\ bulk.failCount = Cardinality(OwnFailures)

\* C7: when a bulk remove or a bulk relink has finished, the operation was
\* attempted exactly once for every name of the snapshot of the registry taken
\* at its start, whatever the other attempts returned, for no other name, and
\* the bulk operation itself returned no error.
C7_BulkIsolatesFailures ==
    /\ \A n \in AllNames : bulk.attempts[n] <= 1
    /\ bulk.phase = "done"
           => /\ \A n \in bulk.names : bulk.attempts[n] = 1
              /\ \A n \in AllNames \ bulk.names : bulk.attempts[n] = 0
              /\ bulk.returned = "nil"
    /\ (bulk.phase = "running" /\ \A n \in AllNames : bulk.attempts[n] = 0)
           => bulk.names = DOMAIN links

\* a bulk remove has finished in which the first attempts failed and a later
\* one succeeded
C7_Witness ==
    /\ bulk.phase = "done" /\ bulk.mode = "unlink"
    /\ Cardinality(OwnFailures) >= 1
    /\ Cardinality(OwnSuccesses) >= 1
    /\ Cardinality(bulk.names) = MaxWorkers

\* C8: when unlink '*' has finished, the success count is the number of links
\* whose RemoveLinkOrShortcut returned no error, the failure count is the
\* number whose call returned an error, and the two add up to the number of
\* links.
C8_UnlinkTallyExact ==
    (bulk.phase = "done" /\ bulk.mode = "unlink")
        => /\ bulk.successCount = Cardinality(OwnSuccesses)
           /\ bulk.failCount = Cardinality(OwnFailures)
           /\ bulk.successCount + bulk.failCount = Cardinality(bulk.names)

\* the success count of unlink '*' on its own is exact
UnlinkSuccessCountExact ==
    (bulk.phase = "done" /\ bulk.mode = "unlink")
        => bulk.successCount = Cardinality(OwnSuccesses)

\* bulk relink counts every link once, on one side or the other
RelinkTallyTotal ==
    (bulk.phase = "done" /\ bulk.mode = "relink")
        => bulk.successCount + bulk.failCount = Cardinality(bulk.names)

----------------------------------------------------------------------------
(* internal/config: the Config value and the bytes of the configuration file *)

CurrentVersion == "1.0"

\* a Go map of links: nil, or made and holding m
NilMap == [isNil |-> TRUE, m |-> NoLinks]
MapOf(m) == [isNil |-> FALSE, m |-> m]
MakeMap == MapOf(NoLinks)

\* Config{Settings: Settings{DefaultSyncPath: path}, Links: linksMap, Version: version}
Config(path, linksMap, version) ==
    [Settings |-> [DefaultSyncPath |-> path], Links |-> linksMap, Version |-> version]

\* The bytes of the file as JSON text: no bytes at all, text that is not JSON,
\* the text null, or an object in which each of the keys "settings", "links"
\* and "version" is absent, null or has a value.
AbsentStr == [p |-> "absent", v |-> ""]
NullStr == [p |-> "null", v |-> ""]
StrValue(x) == [p |-> "value", v |-> x]
AbsentMap == [p |-> "absent", v |-> NoLinks]
NullMap == [p |-> "null", v |-> NoLinks]
MapValue(m) == [p |-> "value", v |-> m]
Json(kind, settingsKey, linksKey, versionKey) ==
    [kind |-> kind, settings |-> settingsKey, links |-> linksKey, version |-> versionKey]
NoFile == Json("missing", AbsentStr, AbsentMap, AbsentStr)
EmptyFile == Json("empty", AbsentStr, AbsentMap, AbsentStr)
Garbage == Json("garbage", AbsentStr, AbsentMap, AbsentStr)
NullText == Json("null", AbsentStr, AbsentMap, AbsentStr)
Braces == Json("object", AbsentStr, AbsentMap, AbsentStr)

\* the entries of old with those of new put over them
Merge(old, new) ==
    [n \in DOMAIN old \cup DOMAIN new |-> IF n \in DOMAIN new THEN new[n] ELSE old[n]]

\* json.Unmarshal(data, &cfg): [err, cfg].  An absent key leaves its field; a
\* null leaves a string or a struct and makes a map nil; an object for
\* "links" is read into the map the field holds, or into a new one.
Unmarshal(data, cfg) ==
    IF data.kind \in {"empty", "garbage"} THEN [err |-> TRUE, cfg |-> cfg]
    ELSE IF data.kind = "null" THEN [err |-> FALSE, cfg |-> cfg]
    ELSE [err |-> FALSE,
          cfg |-> Config(IF data.settings.p = "value" THEN data.settings.v
                         ELSE cfg.Settings.DefaultSyncPath,
                         IF data.links.p = "value"
                         THEN MapOf(Merge(cfg.Links.m, data.links.v))
                         ELSE IF data.links.p = "null" THEN NilMap
                         ELSE cfg.Links,
                         IF data.version.p = "value" THEN data.version.v
                         ELSE cfg.Version)]

\* json.MarshalIndent(cfg, "", "  "): every key is written, a nil map as null
MarshalIndent(cfg) ==
    Json("object", StrValue(cfg.Settings.DefaultSyncPath),
         IF cfg.Links.isNil THEN NullMap ELSE MapValue(cfg.Links.m),
         StrValue(cfg.Version))

\* saveConfigInternal(path, cfg): [err, file].  os.WriteFile truncates the
\* file before it writes: a failure leaves the file as it was ("save"), empty
\* ("savetrunc") or with a part of the text ("savepart").
SaveFaults == {"save", "savetrunc", "savepart"}
SaveNothing(file, cfg, fault) == [err |-> FALSE, file |-> file]
SaveConfigInternal(file, cfg, fault) ==
    IF fault = "save" THEN [err |-> TRUE, file |-> file]
    ELSE IF fault = "savetrunc" THEN [err |-> TRUE, file |-> EmptyFile]
    ELSE IF fault = "savepart" THEN [err |-> TRUE, file |-> Garbage]
    ELSE [err |-> FALSE, file |-> MarshalIndent(cfg)]

\* LoadConfig: the default configuration of a first run
DefaultConfig == Config("", MakeMap, CurrentVersion)

\* LoadConfig, file not empty: the version of the in-memory copy is updated,
\* and a nil map of links is replaced by an empty one
KeepVersion(cfg) == cfg
StampVersion(cfg) ==
    IF cfg.Version # CurrentVersion THEN [cfg EXCEPT !.Version = CurrentVersion] ELSE cfg
EnsureLinks(cfg) == IF cfg.Links.isNil THEN [cfg EXCEPT !.Links = MakeMap] ELSE cfg

----------------------------------------------------------------------------
(* internal/config: the first calls of LoadConfig and GetConfig, made by
   several goroutines of one process *)

Callers == 1..MaxCallers

\* configInstance and the results are pointers: Nil, or the number of the
\* Config value the body allocated
Nil == 0

\* what the configuration file holds when the process starts
SomeLinks == [n \in {"a"} |-> LinkInfo(FALSE, <<"home", "d">>, <<"sync", "a">>, 1)]
FileStates ==
    {NoFile, EmptyFile, Garbage, NullText, Braces,
     Json("object", StrValue("sync"), MapValue(SomeLinks), StrValue(CurrentVersion)),
     Json("object", StrValue("sync"), MapValue(SomeLinks), StrValue("0.9")),
     Json("object", StrValue("sync"), MapValue(SomeLinks), AbsentStr),
     Json("object", AbsentStr, NullMap, StrValue("0.9")),
     Json("object", NullStr, AbsentMap, StrValue(CurrentVersion))}
\* what may go wrong in the body: nothing, the path was not determined at
\* start, or a call of the operating system fails
LoadFaults == {"none", "nopath", "stat", "mkdir", "read"} \cup SaveFaults

NoResult == [cfg |-> Nil, err |-> "none"]

InitLoad ==
    /\ \E file \in FileStates, fault \in LoadFaults,
          fn \in [Callers -> {"LoadConfig", "GetConfig"}] :
           ld = [start |-> file, file |-> file, fault |-> fault, fn |-> fn,
                 once |-> "fresh", configInstance |-> Nil, heap |-> <<>>, runs |-> 0,
                 pc |-> [c \in Callers |-> IF fn[c] = "GetConfig" THEN "check" ELSE "once"],
                 loadErr |-> [c \in Callers |-> FALSE],
                 ret |-> [c \in Callers |-> NoResult]]
    /\ fs = InitFs /\ links = NoLinks /\ disk = NoLinks /\ now = 1
    /\ xdev = FALSE /\ platform = FALSE
    /\ envSteps = 0 /\ faultSteps = 0 /\ last = NoCall
    /\ mv = Idle /\ bulk = Idle /\ rg = Idle

LoadRest == <<fs, links, disk, now, xdev, platform, envSteps, faultSteps, last, mv, bulk, rg>>

\* GetConfig: the test of configInstance, which no lock protects
GetCheck(c) ==
    /\ ld.pc[c] = "check"
    /\ ld' = [ld EXCEPT !.pc[c] = IF ld.configInstance = Nil THEN "once" ELSE "return"]
    /\ UNCHANGED LoadRest

\* GetConfig: return configInstance, nil, the second read of the variable
GetReturn(c) ==
    /\ ld.pc[c] = "return"
    /\ ld' = [ld EXCEPT !.pc[c] = "done",
                        !.ret[c] = [cfg |-> ld.configInstance, err |-> "nil"]]
    /\ UNCHANGED LoadRest

\* once.Do when the body has not been started: this caller runs it
OnceEnter(c) ==
    /\ ld.pc[c] = "once" /\ ld.once = "fresh"
    /\ ld' = [ld EXCEPT !.once = "running", !.pc[c] = "body", !.runs = @ + 1]
    /\ UNCHANGED LoadRest

\* once.Do when the body has completed: return at once; while it runs the
\* caller waits
OnceSkip(c) ==
    /\ ld.pc[c] = "once" /\ ld.once = "done"
    /\ ld' = [ld EXCEPT !.pc[c] = "loaded"]
    /\ UNCHANGED LoadRest

\* the body fails with loadErr set and configInstance untouched
BodyFailed(c) == [ld EXCEPT !.pc[c] = "unlock", !.loadErr[c] = TRUE]
\* the body assigns the address of the Config cfg to configInstance
BodyAssigned(c, pc, cfg) ==
    [ld EXCEPT !.pc[c] = pc, !.configInstance = Len(ld.heap) + 1,
               !.heap = Append(ld.heap, cfg)]

\* the body, no file: the default configuration is saved, then assigned
BodyCreate(c, sv) ==
    IF sv.err THEN [BodyFailed(c) EXCEPT !.file = sv.file]
    ELSE [BodyAssigned(c, "unlock", DefaultConfig) EXCEPT !.file = sv.file]

\* the body, a file that is not empty: json.Unmarshal gave u
BodyParsed(c, u) ==
    IF u.err THEN BodyFailed(c)
    ELSE BodyAssigned(c, "unlock", EnsureLinks(StampVersion(u.cfg)))

\* the body of once.Do up to its first assignment of configInstance
BodyLoad(c) ==
    /\ ld.pc[c] = "body"
    /\ ld' = IF ld.fault \in {"nopath", "stat"} THEN BodyFailed(c)
             ELSE IF ld.file = NoFile
             THEN IF ld.fault = "mkdir" THEN BodyFailed(c)
                  ELSE BodyCreate(c, SaveConfigInternal(ld.file, DefaultConfig, ld.fault))
             ELSE IF ld.fault = "read" THEN BodyFailed(c)
             ELSE IF ld.file.kind = "empty"
             THEN BodyAssigned(c, "unmarshal", Config("", MakeMap, ""))
             ELSE BodyParsed(c, Unmarshal(ld.file, Config("", MakeMap, "")))
    /\ UNCHANGED LoadRest

\* the body on an empty file, json.Unmarshal(data, configInstance) gave u: on
\* an error, unless the data is "{}" or "null", loadErr is set and
\* configInstance is nil again
BodyUnmarshalled(c, u) ==
    IF u.err /\ ld.file # Braces /\ ld.file # NullText
    THEN [ld EXCEPT !.pc[c] = "unlock", !.loadErr[c] = TRUE, !.configInstance = Nil]
    ELSE [ld EXCEPT !.pc[c] = "unlock", !.heap[ld.configInstance] = EnsureLinks(u.cfg)]

BodyUnmarshalEmpty(c) ==
    /\ ld.pc[c] = "unmarshal"
    /\ ld' = BodyUnmarshalled(c, Unmarshal(ld.file, ld.heap[ld.configInstance]))
    /\ UNCHANGED LoadRest

\* the body returns: the once is done and the waiting callers go on
BodyEnd(c) ==
    /\ ld.pc[c] = "unlock"
    /\ ld' = [ld EXCEPT !.pc[c] = "loaded", !.once = "done"]
    /\ UNCHANGED LoadRest

\* A LoadConfig that returns configInstance without testing it for nil
LoadResultUntested(c) ==
    IF ld.loadErr[c] THEN [cfg |-> Nil, err |-> "err"]
    ELSE [cfg |-> ld.configInstance, err |-> "nil"]

\* what LoadConfig returns after once.Do, from its own loadErr
LoadResult(c) ==
    IF ld.loadErr[c] THEN [cfg |-> Nil, err |-> "err"]
    ELSE IF ld.configInstance = Nil THEN [cfg |-> Nil, err |-> "err"]
    ELSE [cfg |-> ld.configInstance, err |-> "nil"]

\* LoadConfig returns; in GetConfig an error is passed on, a nil
\* configInstance is an error, and otherwise GetConfig goes on to its return
LoadReturn(c) ==
    /\ ld.pc[c] = "loaded"
    /\ ld' = IF ld.fn[c] = "LoadConfig" \/ LoadResult(c).err = "err"
             THEN [ld EXCEPT !.pc[c] = "done", !.ret[c] = LoadResult(c)]
             ELSE [ld EXCEPT !.pc[c] = "return"]
    /\ UNCHANGED LoadRest

NextLoad ==
    \/ \E c \in Callers : GetCheck(c)
    \/ \E c \in Callers : GetReturn(c)
    \/ \E c \in Callers : OnceEnter(c)
    \/ \E c \in Callers : OnceSkip(c)
    \/ \E c \in Callers : BodyLoad(c)
    \/ \E c \in Callers : BodyUnmarshalEmpty(c)
    \/ \E c \in Callers : BodyEnd(c)
    \/ \E c \in Callers : LoadReturn(c)

SpecLoad == InitLoad /\ [][NextLoad]_vars

----------------------------------------------------------------------------
(* Properties of the first load *)

\* the callers that returned without an error
Succeeded == {c \in Callers : ld.pc[c] = "done" /\ ld.ret[c].err = "nil"}

\* C10: under any number of concurrent first calls of LoadConfig and
\* GetConfig the body that reads or creates the registry file runs exactly
\* once, and all the callers that return without an error hold the same
\* registry instance.
C10_LoadOnce ==
    /\ ld.runs <= 1
    /\ (\E c \in Callers : ld.pc[c] = "done") => ld.runs = 1
    /\ \A c, d \in Succeeded : ld.ret[c].cfg = ld.ret[d].cfg

\* the body runs exactly once
LoadBodyRunsOnce ==
    /\ ld.runs <= 1
    /\ (\E c \in Callers : ld.pc[c] = "done") => ld.runs = 1

\* when the file is not empty, the callers that return without an error hold
\* the one instance the body made
SameInstanceUnlessEmpty ==
    ld.start # EmptyFile => \A c \in Succeeded : ld.ret[c].cfg = 1

\* the callers of LoadConfig that have returned
LoadReturned == {c \in Callers : ld.fn[c] = "LoadConfig" /\ ld.pc[c] = "done"}
\* the faults that keep the body from reading a file that exists
ReadFaults == {"nopath", "stat", "read"}

\* C11: when the registry file exists and is an empty file, or holds {} or
\* null, LoadConfig returns without an error a registry whose mapping of links
\* is empty and not nil.
C11_RecoverableFileLoads ==
    \A c \in LoadReturned :
        (ld.start \in {EmptyFile, Braces, NullText} /\ ld.fault \notin ReadFaults)
            => /\ ld.ret[c].err = "nil"
               /\ ld.heap[ld.ret[c].cfg].Links = MakeMap

\* the same for a file that holds {} or null only
BracesOrNullLoads ==
    \A c \in LoadReturned :
        (ld.start \in {Braces, NullText} /\ ld.fault \notin ReadFaults)
            => /\ ld.ret[c].err = "nil"
               /\ ld.heap[ld.ret[c].cfg].Links = MakeMap

\* an empty file makes every LoadConfig fail
EmptyFileFailsLoad ==
    \A c \in LoadReturned : ld.start = EmptyFile => ld.ret[c].err = "err"

\* the links and the default sync path a file holds
LinksIn(data) == IF data.links.p = "value" THEN data.links.v ELSE NoLinks
SyncPathIn(data) == IF data.settings.p = "value" THEN data.settings.v ELSE ""

\* C12: when the registry file parses and its version is not the current
\* one, LoadConfig returns without an error a registry whose version is the
\* current version and whose links and settings are those of the file.
C12_VersionMismatchLoads ==
    \A c \in LoadReturned :
        (ld.start.kind = "object" /\ ld.start.version # StrValue(CurrentVersion)
           /\ ld.fault \notin ReadFaults)
            => /\ ld.ret[c].err = "nil"
               /\ ld.heap[ld.ret[c].cfg].Version = CurrentVersion
               /\ ld.heap[ld.ret[c].cfg].Links = MapOf(LinksIn(ld.start))
               /\ ld.heap[ld.ret[c].cfg].Settings.DefaultSyncPath = SyncPathIn(ld.start)

\* LoadConfig has returned the registry of a file of version 0.9 with a link
C12_Witness ==
    \E c \in LoadReturned :
        /\ ld.start.version = StrValue("0.9") /\ ld.start.links = MapValue(SomeLinks)
        /\ ld.ret[c].err = "nil"

\* C13: when there is no registry file, LoadConfig makes a registry with no
\* links, no default sync directory and the current version, writes it to the
\* file before it installs and returns it; when that write (or making its
\* directory) fails, LoadConfig returns an error and no instance is installed.
C13_FirstRunCreates ==
    ld.start = NoFile
        => /\ ld.configInstance # Nil
                  => /\ ld.heap[ld.configInstance] = Config("", MakeMap, CurrentVersion)
                     /\ ld.file = MarshalIndent(ld.heap[ld.configInstance])
           /\ \A c \in LoadReturned :
                  IF ld.fault \in SaveFaults \cup {"mkdir"}
                  THEN ld.ret[c].err = "err" /\ ld.configInstance = Nil
                  ELSE ld.fault = "none"
                           => ld.ret[c].err = "nil" /\ ld.ret[c].cfg = ld.configInstance
           /\ ld.fault \in SaveFaults \cup {"mkdir"} => ld.configInstance = Nil

\* LoadConfig has returned the registry it made on a first run
C13_Witness ==
    \E c \in LoadReturned :
        ld.start = NoFile /\ ld.ret[c].err = "nil" /\ ld.file # NoFile

\* the body of once.Do has run and has failed
LoadFailed == ld.once = "done" /\ \E c \in Callers : ld.loadErr[c]
\* the calls that had not got past once.Do, or had not begun, when it failed
Later == {c \in Callers : ld.pc[c] \in {"check", "once", "loaded"}}

\* C36: once the first load has failed, for a path that cannot be read, a
\* content that cannot be parsed or a first save that failed, the body is
\* not run again, configInstance stays nil, and every call of LoadConfig or
\* GetConfig that returns from then on, but for a GetConfig that read
\* configInstance while the body was running, returns an error and no
\* registry.
C36_FailedLoadIsFinal ==
    [][ LoadFailed
          => /\ ld.configInstance = Nil /\ ld'.configInstance = Nil
             /\ ld.runs = 1 /\ ld'.runs = 1
             /\ \A c \in Later :
                   /\ ld'.pc[c] \in {"check", "once", "loaded", "done"}
                   /\ ld'.pc[c] = "done" => ld'.ret[c] = [cfg |-> Nil, err |-> "err"] ]_vars

\* after a failed load of an unparsable file, a GetConfig that began when the
\* body had ended has returned the error, and a further caller has not begun
C36_Witness ==
    /\ LoadFailed /\ ld.start = Garbage /\ ld.fault = "none"
    /\ \E c, d, e \in Callers :
          /\ ld.loadErr[c] /\ ld.pc[c] = "done" /\ ld.ret[c].err = "err"
          /\ d # c /\ ld.fn[d] = "GetConfig" /\ ld.pc[d] = "done"
          /\ ld.ret[d] = [cfg |-> Nil, err |-> "err"]
          /\ e \notin {c, d} /\ ld.pc[e] \in {"check", "once"}


----------------------------------------------------------------------------
(* internal/config: the accessors of the loaded Config called by several
   goroutines, under configMutex *)

Goroutines == 1..MaxGoroutines

\* c.Links[name] = info, on a map made if it was nil
PutNothing(cfg, name, info) == cfg
PutLink(cfg, name, info) ==
    [cfg EXCEPT !.Links = MapOf(Merge(cfg.Links.m, [n \in {name} |-> info]))]
\* delete(c.Links, name)
DeleteNothing(cfg, name) == cfg
DeleteLink(cfg, name) ==
    [cfg EXCEPT !.Links = [isNil |-> cfg.Links.isNil,
                           m |-> [n \in DOMAIN cfg.Links.m \ {name} |-> cfg.Links.m[n]]]]
\* c.Settings.DefaultSyncPath = absPath
SetPath(cfg, path) == [cfg EXCEPT !.Settings.DefaultSyncPath = path]

\* the calls a goroutine may make
RegOp(fn, name, info, path) == [fn |-> fn, name |-> name, info |-> info, path |-> path]
NoInfo == LinkInfo(FALSE, NoPath, NoPath, 0)
RegOps ==
    {RegOp("AddLink", "a", LinkInfo(FALSE, <<"home", "f">>, <<"sync", "files", "a">>, 2), ""),
     RegOp("AddLink", "b", LinkInfo(TRUE, <<"home", "f">>, <<"menu", "b.lnk">>, 2), ""),
     RegOp("RemoveLink", "a", NoInfo, ""),
     RegOp("RemoveLink", "b", NoInfo, ""),
     RegOp("SetDefaultSyncPath", "", NoInfo, "other"),
     RegOp("GetLink", "a", NoInfo, "")}
Writes == {"AddLink", "RemoveLink", "SetDefaultSyncPath"}

\* the loaded Config and the file of a process that has run before; the file
\* may still carry another version than the in-memory copy
RegConfigs == {Config("sync", MakeMap, CurrentVersion),
               Config("sync", MapOf(SomeLinks), CurrentVersion)}
RegVersions == {CurrentVersion, "0.9"}

InitReg ==
    /\ \E cfg \in RegConfigs, v \in RegVersions, op \in [Goroutines -> RegOps],
          bad \in Goroutines, fault \in {"none"} \cup SaveFaults :
           rg = [cfg |-> cfg, file |-> MarshalIndent([cfg EXCEPT !.Version = v]),
                 start |-> [cfg |-> cfg,
                            file |-> MarshalIndent([cfg EXCEPT !.Version = v])],
                 writer |-> 0, readers |-> {}, op |-> op,
                 fault |-> [g \in Goroutines |-> IF g = bad THEN fault ELSE "none"],
                 pc |-> [g \in Goroutines |-> "start"],
                 existed |-> [g \in Goroutines |-> FALSE],
                 err |-> [g \in Goroutines |-> "none"],
                 seen |-> [g \in Goroutines |-> GetLink(NoLinks, "")]]
    /\ fs = InitFs /\ links = NoLinks /\ disk = NoLinks /\ now = 1
    /\ xdev = FALSE /\ platform = FALSE
    /\ envSteps = 0 /\ faultSteps = 0 /\ last = NoCall
    /\ mv = Idle /\ bulk = Idle /\ ld = Idle

RegRest == <<fs, links, disk, now, xdev, platform, envSteps, faultSteps, last, mv, bulk, ld>>

\* AddLink, RemoveLink, SetDefaultSyncPath: configMutex.Lock()
WriteLock(g) ==
    /\ rg.pc[g] = "start" /\ rg.op[g].fn \in Writes
    /\ rg.writer = 0 /\ rg.readers = {}
    /\ rg' = [rg EXCEPT !.writer = g, !.pc[g] = "mutate"]
    /\ UNCHANGED RegRest

\* what the call op makes of the Config in memory
Mutation(cfg, op) ==
    IF op.fn = "AddLink" THEN PutLink(cfg, op.name, op.info)
    ELSE IF op.fn = "RemoveLink" THEN DeleteLink(cfg, op.name)
    ELSE SetPath(cfg, op.path)

\* the change in memory, made with the lock held
Mutate(g) ==
    /\ rg.pc[g] = "mutate"
    /\ rg' = [rg EXCEPT !.cfg = Mutation(rg.cfg, rg.op[g]),
                        !.existed[g] = rg.op[g].fn = "RemoveLink"
                                          /\ rg.op[g].name \in DOMAIN rg.cfg.Links.m,
                        !.pc[g] = "unlock"]
    /\ UNCHANGED RegRest

\* configMutex.Unlock(), before the save; RemoveLink of a name that was not
\* there returns false, nil
WriteUnlock(g) ==
    /\ rg.pc[g] = "unlock"
    /\ rg' = IF rg.op[g].fn = "RemoveLink" /\ ~rg.existed[g]
             THEN [rg EXCEPT !.writer = 0, !.pc[g] = "done", !.err[g] = "nil"]
             ELSE [rg EXCEPT !.writer = 0, !.pc[g] = "save"]
    /\ UNCHANGED RegRest

\* SaveConfig: configMutex.Lock()
SaveLock(g) ==
    /\ rg.pc[g] = "save"
    /\ rg.writer = 0 /\ rg.readers = {}
    /\ rg' = [rg EXCEPT !.writer = g, !.pc[g] = "write"]
    /\ UNCHANGED RegRest

\* A save that writes the registry as the caller alone has changed it
SaveWrittenOwn(g, sv) ==
    [rg EXCEPT !.cfg.Version = CurrentVersion,
               !.file = IF sv.err THEN sv.file
                        ELSE MarshalIndent([Mutation(rg.start.cfg, rg.op[g])
                                               EXCEPT !.Version = CurrentVersion]),
               !.err[g] = IF sv.err THEN "err" ELSE "nil", !.pc[g] = "saved"]

\* SaveConfig with the lock held: saveConfigInternal gave sv
SaveWritten(g, sv) ==
    [rg EXCEPT !.cfg.Version = CurrentVersion, !.file = sv.file,
               !.err[g] = IF sv.err THEN "err" ELSE "nil", !.pc[g] = "saved"]

\* SaveConfig: the version is set and the whole Config is written
SaveWrite(g) ==
    /\ rg.pc[g] = "write"
    /\ rg' = SaveWritten(g, SaveConfigInternal(rg.file,
                                               [rg.cfg EXCEPT !.Version = CurrentVersion],
                                               rg.fault[g]))
    /\ UNCHANGED RegRest

\* SaveConfig: the deferred configMutex.Unlock(), and the call returns
SaveUnlock(g) ==
    /\ rg.pc[g] = "saved"
    /\ rg' = [rg EXCEPT !.writer = 0, !.pc[g] = "done"]
    /\ UNCHANGED RegRest

\* GetLink: configMutex.RLock() and the lookup
ReadLock(g) ==
    /\ rg.pc[g] = "start" /\ rg.op[g].fn = "GetLink"
    /\ rg.writer = 0
    /\ rg' = [rg EXCEPT !.readers = @ \cup {g}, !.pc[g] = "read",
                        !.seen[g] = GetLink(rg.cfg.Links.m, rg.op[g].name)]
    /\ UNCHANGED RegRest

\* GetLink: the deferred configMutex.RUnlock(), and the call returns
ReadUnlock(g) ==
    /\ rg.pc[g] = "read"
    /\ rg' = [rg EXCEPT !.readers = @ \ {g}, !.pc[g] = "done", !.err[g] = "nil"]
    /\ UNCHANGED RegRest

NextReg ==
    \/ \E g \in Goroutines : WriteLock(g)
    \/ \E g \in Goroutines : Mutate(g)
    \/ \E g \in Goroutines : WriteUnlock(g)
    \/ \E g \in Goroutines : SaveLock(g)
    \/ \E g \in Goroutines : SaveWrite(g)
    \/ \E g \in Goroutines : SaveUnlock(g)
    \/ \E g \in Goroutines : ReadLock(g)
    \/ \E g \in Goroutines : ReadUnlock(g)

SpecReg == InitReg /\ [][NextReg]_vars

----------------------------------------------------------------------------
(* Properties of the registry accessors *)

\* the goroutine g has changed the Config in memory and the save of that
\* change has not finished
Unsaved(g) ==
    /\ rg.pc[g] \in {"unlock", "save", "write"}
    /\ rg.op[g].fn = "RemoveLink" => rg.existed[g]

\* C14: from the change in memory of AddLink, RemoveLink and
\* SetDefaultSyncPath until the save of that change has finished, the calling
\* goroutine holds the exclusive lock, so that no other read or write of the
\* registry falls in between.
C14_WriteHoldsLockUntilSaved ==
    \A g \in Goroutines : Unsaved(g) => rg.writer = g

\* the lock does exclude: a change in memory and a write of the file are made
\* with the exclusive lock held, and a reader never runs beside a writer
LockExcludes ==
    /\ \A g \in Goroutines : rg.pc[g] \in {"mutate", "unlock", "write", "saved"}
                                => rg.writer = g
    /\ rg.writer # 0 => rg.readers = {}

\* the call of g has returned and no other call has begun
Alone(g) ==
    /\ rg.pc[g] = "done"
    /\ \A h \in Goroutines \ {g} : rg.pc[h] = "start"

\* C15 as stated: an AddLink that no other call overlaps returns success only
\* when the file holds the registry with the record; when the save fails it
\* returns an error, the record is in the registry in memory, and the file is
\* as it was before the call.
C15_AddLinkFileUntouched ==
    \A g \in Goroutines :
        (Alone(g) /\ rg.op[g].fn = "AddLink")
            => /\ rg.op[g].name \in DOMAIN rg.cfg.Links.m
               /\ rg.cfg.Links.m[rg.op[g].name] = rg.op[g].info
               /\ rg.err[g] = "nil"
                      => /\ rg.fault[g] = "none"
                         /\ rg.file = MarshalIndent(rg.cfg)
                         /\ rg.file.links = MapValue(rg.cfg.Links.m)
               /\ rg.fault[g] # "none"
                      => /\ rg.err[g] = "err"
                         /\ rg.file = rg.start.file

\* C15: an AddLink that no other call overlaps returns success only when the
\* file holds the registry with the record; when the save fails it returns an
\* error and the record is in the registry in memory; the file is as it was
\* before the call when the failure came before the file was opened, and is
\* empty or holds a part of the new text when the write itself failed.
C15_AddLinkPersistsOrReports ==
    \A g \in Goroutines :
        (Alone(g) /\ rg.op[g].fn = "AddLink")
            => /\ rg.op[g].name \in DOMAIN rg.cfg.Links.m
               /\ rg.cfg.Links.m[rg.op[g].name] = rg.op[g].info
               /\ rg.err[g] = "nil"
                      => /\ rg.fault[g] = "none"
                         /\ rg.file = MarshalIndent(rg.cfg)
                         /\ rg.file.links = MapValue(rg.cfg.Links.m)
               /\ rg.fault[g] # "none" => rg.err[g] = "err"
               /\ rg.fault[g] = "save" => rg.file = rg.start.file
               /\ rg.fault[g] \in {"savetrunc", "savepart"}
                      => rg.file \in {EmptyFile, Garbage}

\* an AddLink has returned an error and has left the file truncated
C15_Witness ==
    \E g \in Goroutines :
        /\ Alone(g) /\ rg.op[g].fn = "AddLink"
        /\ rg.err[g] = "err" /\ rg.file = EmptyFile
        /\ rg.op[g].name \notin DOMAIN rg.start.cfg.Links.m

\* C16: a RemoveLink that no other call overlaps, of a name that is not
\* registered, returns existed = false and no error, saves nothing and changes
\* nothing; of a registered name, it deletes the record in memory and saves,
\* returning existed = true, with an error when the save fails, the record
\* staying deleted in memory.
C16_RemoveLinkOutcomes ==
    \A g \in Goroutines :
        (Alone(g) /\ rg.op[g].fn = "RemoveLink")
            => IF rg.op[g].name \notin DOMAIN rg.start.cfg.Links.m
               THEN /\ ~rg.existed[g] /\ rg.err[g] = "nil"
                    /\ rg.cfg = rg.start.cfg /\ rg.file = rg.start.file
               ELSE /\ rg.existed[g]
                    /\ rg.op[g].name \notin DOMAIN rg.cfg.Links.m
                    /\ rg.cfg.Links.m = [n \in DOMAIN rg.start.cfg.Links.m \ {rg.op[g].name}
                                            |-> rg.start.cfg.Links.m[n]]
                    /\ rg.fault[g] = "none"
                           => rg.err[g] = "nil" /\ rg.file = MarshalIndent(rg.cfg)
                    /\ rg.fault[g] # "none" => rg.err[g] = "err"

\* a RemoveLink of a registered name has returned with the save failed
C16_Witness ==
    \E g \in Goroutines :
        /\ Alone(g) /\ rg.op[g].fn = "RemoveLink"
        /\ rg.existed[g] /\ rg.err[g] = "err"

\* the call of g has written the file
HasSaved(g) ==
    /\ rg.pc[g] = "done" /\ rg.op[g].fn \in Writes
    /\ rg.op[g].fn = "RemoveLink" => rg.existed[g]

\* every call has returned and no save has failed
AllReturned ==
    /\ \A g \in Goroutines : rg.pc[g] = "done"
    /\ \A g \in Goroutines : rg.fault[g] = "none"

----------------------------------------------------------------------------
(* The engine calls of several goroutines (the workers of relink --all, or
   commands run side by side) against configMutex: each call is cut where it
   takes or releases the lock and where its work on the filesystem begins
   and ends.  rg holds the lock and, for each goroutine, its call and how far
   it has come; links and disk are the registry in memory and its file. *)

\* the calls a goroutine may make
EngineOp(fn, name, target, shortcut) ==
    [fn |-> fn, name |-> name, target |-> target, shortcut |-> shortcut]
EngineOps ==
    {EngineOp("create", "a", <<"home", "f">>, FALSE),
     EngineOp("create", "a", <<"home", "f">>, TRUE),
     EngineOp("remove", "a", NoPath, FALSE),
     EngineOp("relink", "a", NoPath, FALSE),
     EngineOp("GetLink", "a", NoPath, FALSE)}
EngineFaults == {{}, {"persist"}, {"persist", "rm"}, {"rm"}, {"symlink"}}

\* sync.RWMutex: RUnlock
RUnlockForgotten(readers, g) == readers
RUnlock(readers, g) == readers \ {g}

\* the registry as the call saw it in its GetLink
SeenLinks(name, g) == IF g.exists THEN [n \in {name} |-> g.info] ELSE NoLinks

\* The work of the call between its GetLink and its AddLink or RemoveLink:
\* the outcome of the engine call on the registry it saw, the save left out
EngineCall(root, op, first, second, clock, F) ==
    IF op.fn = "create"
    THEN CreateLinkOrShortcut(root, SeenLinks(op.name, second), NoLinks, clock,
                              op.target, op.name, SyncDir, op.shortcut, TRUE, F)
    ELSE IF op.fn = "remove"
    THEN RemoveLooked(root, first, TRUE,
                      [lk |-> SeenLinks(op.name, second), dk |-> NoLinks,
                       name |-> op.name, F |-> F])
    ELSE RelinkLooked(root, first, TRUE,
                      [lk |-> SeenLinks(op.name, second), dk |-> NoLinks,
                       name |-> op.name, F |-> F])

\* the call of Config the engine call ends with: AddLink, RemoveLink or none
Pending(name, before, after) ==
    IF name \in DOMAIN after /\ (name \notin DOMAIN before \/ after[name] # before[name])
    THEN [fn |-> "AddLink", info |-> after[name]]
    ELSE IF name \in DOMAIN before /\ name \notin DOMAIN after
    THEN [fn |-> "RemoveLink", info |-> NoInfo]
    ELSE [fn |-> "none", info |-> NoInfo]

\* a link "a" of an earlier run, and the files around it
LinkedFs ==
    Dir([n \in {"home", "sync", "menu"} |->
            IF n = "home" THEN Dir([m \in {"f"} |-> Symlink(<<"sync", "files", "a">>)])
            ELSE IF n = "sync" THEN Dir([m \in {"files"} |-> Dir([h \in {"a"} |-> File(1)])])
            ELSE EmptyDir])
LinkedLinks ==
    [n \in {"a"} |-> LinkInfo(FALSE, <<"home", "f">>, <<"sync", "files", "a">>, 0)]
ShortcutFs ==
    Dir([n \in {"home", "sync", "menu"} |->
            IF n = "home" THEN Dir([m \in {"f"} |-> File(1)])
            ELSE IF n = "sync" THEN EmptyDir
            ELSE Dir([m \in {"a.lnk"} |-> Lnk(<<"home", "f">>)])])
ShortcutLinks ==
    [n \in {"a"} |-> LinkInfo(TRUE, <<"home", "f">>, <<"menu", "a.lnk">>, 0)]
EngineStarts ==
    {[fs |-> InitFs, links |-> NoLinks],
     [fs |-> LinkedFs, links |-> LinkedLinks],
     [fs |-> ShortcutFs, links |-> ShortcutLinks]}

InitEngine ==
    /\ \E st \in EngineStarts : fs = st.fs /\ links = st.links
    /\ disk = links
    /\ \E op \in [Goroutines -> EngineOps], bad \in Goroutines, F \in EngineFaults :
           rg = [writer |-> 0, readers |-> {}, op |-> op,
                 fault |-> [g \in Goroutines |-> IF g = bad THEN F ELSE {}],
                 pc |-> [g \in Goroutines |-> "start"],
                 looks |-> [g \in Goroutines |-> 0],
                 first |-> [g \in Goroutines |-> GetLink(NoLinks, "")],
                 seen |-> [g \in Goroutines |-> GetLink(NoLinks, "")],
                 todo |-> [g \in Goroutines |-> Pending("", NoLinks, NoLinks)],
                 existed |-> [g \in Goroutines |-> FALSE],
                 res |-> [g \in Goroutines |-> ""]]
    /\ now = 1 /\ xdev = FALSE /\ platform = TRUE
    /\ envSteps = 0 /\ faultSteps = 0 /\ last = NoCall
    /\ mv = Idle /\ bulk = Idle /\ ld = Idle

EngineRest == <<now, xdev, platform, envSteps, faultSteps, last, mv, bulk, ld>>

\* cfg.GetLink(linkName): configMutex.RLock() and the lookup.  The shortcut
\* branch of CreateLinkOrShortcut makes no such call.
EngineRead(g) ==
    /\ rg.pc[g] = "start"
    /\ ~(rg.op[g].fn = "create" /\ rg.op[g].shortcut)
    /\ rg.writer = 0
    /\ rg' = [rg EXCEPT !.readers = @ \cup {g}, !.pc[g] = "read",
                        !.looks[g] = @ + 1,
                        !.first[g] = IF rg.looks[g] = 0
                                     THEN GetLink(links, rg.op[g].name) ELSE @,
                        !.seen[g] = GetLink(links, rg.op[g].name)]
    /\ UNCHANGED <<fs, links, disk>> /\ UNCHANGED EngineRest

\* where the call goes after its GetLink: RemoveLinkOrShortcut and
\* RelinkLinkOrShortcut hand a Symlink record to RemoveSymbolicLink and
\* RelinkSymbolicLink, which call GetLink again
AfterRead(op, looks, seen) ==
    IF op.fn = "GetLink" THEN "done"
    ELSE IF op.fn \in {"remove", "relink"} /\ looks = 1
            /\ seen.exists /\ ~seen.info.Shortcut
    THEN "start"
    ELSE "ready"

\* GetLink: the deferred configMutex.RUnlock(), and GetLink returns
EngineReadDone(g) ==
    /\ rg.pc[g] = "read"
    /\ rg' = [rg EXCEPT !.readers = RUnlock(@, g),
                        !.pc[g] = AfterRead(rg.op[g], rg.looks[g], rg.seen[g])]
    /\ UNCHANGED <<fs, links, disk>> /\ UNCHANGED EngineRest

\* the work on the filesystem begins: the checks, the move, the symbolic
\* link, the shortcut delegate
EngineBegin(g) ==
    /\ \/ rg.pc[g] = "ready"
       \/ rg.pc[g] = "start" /\ rg.op[g].fn = "create" /\ rg.op[g].shortcut
    /\ rg' = [rg EXCEPT !.pc[g] = "moving"]
    /\ UNCHANGED <<fs, links, disk>> /\ UNCHANGED EngineRest

\* the work on the filesystem is done: o is what it came to
EngineMoved(g, o) ==
    [rg EXCEPT !.res[g] = o.res,
               !.todo[g] = Pending(rg.op[g].name,
                                   SeenLinks(rg.op[g].name, rg.seen[g]), o.links),
               !.pc[g] = IF Pending(rg.op[g].name,
                                    SeenLinks(rg.op[g].name, rg.seen[g]),
                                    o.links).fn = "none"
                         THEN "done" ELSE "record"]

EngineEnd(g) ==
    /\ rg.pc[g] = "moving"
    /\ \E o \in {EngineCall(fs, rg.op[g], rg.first[g], rg.seen[g], now,
                             rg.fault[g] \ {"persist"})} :
           /\ fs' = o.fs
           /\ rg' = EngineMoved(g, o)
    /\ UNCHANGED <<links, disk>> /\ UNCHANGED EngineRest

\* AddLink, RemoveLink: configMutex.Lock()
EngineLock(g) ==
    /\ rg.pc[g] = "record"
    /\ rg.writer = 0 /\ rg.readers = {}
    /\ rg' = [rg EXCEPT !.writer = g, !.pc[g] = "mutate"]
    /\ UNCHANGED <<fs, links, disk>> /\ UNCHANGED EngineRest

\* AddLink, RemoveLink: the change in memory, made with the lock held
EngineMutate(g) ==
    /\ rg.pc[g] = "mutate"
    /\ links' = IF rg.todo[g].fn = "AddLink"
                THEN AddLink(links, disk, rg.op[g].name, rg.todo[g].info, FALSE).links
                ELSE RemoveLink(links, disk, rg.op[g].name, FALSE).links
    /\ rg' = [rg EXCEPT !.existed[g] = rg.op[g].name \in DOMAIN links,
                        !.pc[g] = "unlock"]
    /\ UNCHANGED <<fs, disk>> /\ UNCHANGED EngineRest

\* AddLink, RemoveLink: configMutex.Unlock(), before the save; RemoveLink of
\* a name that was not there returns false, nil
EngineUnlock(g) ==
    /\ rg.pc[g] = "unlock"
    /\ rg' = IF rg.todo[g].fn = "RemoveLink" /\ ~rg.existed[g]
             THEN [rg EXCEPT !.writer = 0, !.pc[g] = "done"]
             ELSE [rg EXCEPT !.writer = 0, !.pc[g] = "save"]
    /\ UNCHANGED <<fs, links, disk>> /\ UNCHANGED EngineRest

\* SaveConfig: configMutex.Lock()
EngineSaveLock(g) ==
    /\ rg.pc[g] = "save"
    /\ rg.writer = 0 /\ rg.readers = {}
    /\ rg' = [rg EXCEPT !.writer = g, !.pc[g] = "write"]
    /\ UNCHANGED <<fs, links, disk>> /\ UNCHANGED EngineRest

\* SaveConfig with the lock held: the whole registry is written
EngineSaveWrite(g) ==
    /\ rg.pc[g] = "write"
    /\ \E sv \in {SaveConfig(links, disk, "persist" \in rg.fault[g])} :
           /\ disk' = sv.disk
           /\ rg' = [rg EXCEPT !.pc[g] = "saved",
                               !.res[g] = IF sv.err THEN "e_persist" ELSE @]
    /\ UNCHANGED <<fs, links>> /\ UNCHANGED EngineRest

\* SaveConfig: the deferred configMutex.Unlock(); the shortcut branch of
\* CreateLinkOrShortcut goes on to delete its shortcut when the save failed
EngineSaveUnlock(g) ==
    /\ rg.pc[g] = "saved"
    /\ rg' = [rg EXCEPT !.writer = 0,
                        !.pc[g] = IF /\ rg.res[g] = "e_persist"
                                     /\ rg.op[g].fn = "create" /\ rg.op[g].shortcut
                                  THEN "cleanup" ELSE "done"]
    /\ UNCHANGED <<fs, links, disk>> /\ UNCHANGED EngineRest

\* CreateLinkOrShortcut: os.Remove(shortcutFilePath) after the failed save
EngineCleanup(g) ==
    /\ rg.pc[g] = "cleanup"
    /\ fs' = OsRemove(fs, rg.todo[g].info.SyncedPath, "rm" \in rg.fault[g]).fs
    /\ rg' = [rg EXCEPT !.pc[g] = "done"]
    /\ UNCHANGED <<links, disk>> /\ UNCHANGED EngineRest

NextEngine ==
    \/ \E g \in Goroutines : EngineRead(g)
    \/ \E g \in Goroutines : EngineReadDone(g)
    \/ \E g \in Goroutines : EngineBegin(g)
    \/ \E g \in Goroutines : EngineEnd(g)
    \/ \E g \in Goroutines : EngineLock(g)
    \/ \E g \in Goroutines : EngineMutate(g)
    \/ \E g \in Goroutines : EngineUnlock(g)
    \/ \E g \in Goroutines : EngineSaveLock(g)
    \/ \E g \in Goroutines : EngineSaveWrite(g)
    \/ \E g \in Goroutines : EngineSaveUnlock(g)
    \/ \E g \in Goroutines : EngineCleanup(g)

SpecEngine == InitEngine /\ [][NextEngine]_vars

----------------------------------------------------------------------------
(* Properties of the engine calls under the lock *)

\* the goroutine is at work on the filesystem
AtWork(g) == rg.pc[g] \in {"moving", "cleanup"}

\* C30: no engine call holds configMutex, for writing or for reading, while
\* its work on the filesystem is under way: the lock is held only around a
\* lookup, a change in memory and a save; so while every other goroutine is
\* at work on the filesystem the lock is free for a GetLink.
C30_LockScope ==
    /\ \A g \in Goroutines : AtWork(g) => rg.writer # g /\ g \notin rg.readers
    /\ rg.writer # 0 => rg.pc[rg.writer] \in {"mutate", "unlock", "write", "saved"}
    /\ \A g \in rg.readers : rg.pc[g] = "read"
    /\ \A h \in Goroutines :
          (\A g \in Goroutines \ {h} : AtWork(g))
              => rg.writer \in {0, h} /\ rg.readers \subseteq {h}

\* a GetLink has taken the read lock while another call's move was under way
C30_Witness ==
    \E g, h \in Goroutines :
        /\ g # h
        /\ rg.pc[g] = "moving" /\ rg.op[g].fn \in {"create", "remove"}
        /\ ~rg.op[g].shortcut
        /\ rg.pc[h] = "read" /\ h \in rg.readers

----------------------------------------------------------------------------
(* link run on paths inside the sync directory of an earlier run, among them
   the very paths a create computes as its synced path *)

PlaceTargets == {FilesDir(SyncDir) \o <<"a">>, SyncDir \o <<"a">>, <<"home", "f">>}

\* what the sync directory may hold when the program is run
SyncDirs ==
    {Dir([n \in {"files"} |-> Dir([m \in {"a"} |-> File(5)])]),
     Dir([n \in {"files"} |-> Dir([m \in {"a"} |-> Symlink(<<"home", "t">>)])]),
     Dir([n \in {"files"} |-> Dir([m \in {"a"} |-> Dir([h \in {"p"} |-> File(2)])])]),
     Dir([n \in {"files", "a"} |->
            IF n = "files" THEN EmptyDir ELSE Dir([h \in {"p"} |-> File(2)])]),
     Dir([n \in {"files", "a"} |-> IF n = "files" THEN EmptyDir ELSE File(5)]),
     Dir([n \in {"files", "a"} |->
            IF n = "files" THEN EmptyDir ELSE Symlink(<<"home", "d">>)])}

InitPlace ==
    /\ \E y \in SyncDirs : fs = PutAt(InitFs, SyncDir, y)
    /\ links = NoLinks
    /\ disk = links
    /\ now = 1
    /\ xdev \in BOOLEAN
    /\ platform = FALSE
    /\ envSteps = 0
    /\ faultSteps = 0
    /\ last = NoCall
    /\ mv = Idle
    /\ bulk = Idle
    /\ ld = Idle
    /\ rg = Idle

NextPlace ==
    \/ \E t \in PlaceTargets, n \in LinkNames, F \in FaultSets : Create(t, n, FALSE, F)
    \/ \E n \in LinkNames, F \in FaultSets : Remove(n, F)
    \/ \E n \in LinkNames, F \in FaultSets : Relink(n, F)

SpecPlace == InitPlace /\ [][NextPlace]_vars

\* the registry holds no Symlink record with an empty path or with its two
\* paths the same
DistinctPaths(lk) ==
    \A n \in DOMAIN lk :
        ~lk[n].Shortcut => /\ lk[n].OriginalPath # NoPath
                           /\ lk[n].SyncedPath # NoPath
                           /\ lk[n].SyncedPath # lk[n].OriginalPath

\* C32: in every reachable state every Symlink record of the registry, in
\* memory and persisted, has a non-empty original path and a non-empty synced
\* path that differs from the original path, also after a create run on a
\* target that lies at its own synced path.
C32_SyncedDiffersFromOriginal == DistinctPaths(links) /\ DistinctPaths(disk)

\* a create was run on the file at its own synced path, and was refused
C32_Witness ==
    /\ last.op = "create" /\ ~last.faulted
    /\ IsFile(Pre.fs, last.target)
    /\ last.target = FilesDir(SyncDir) \o <<last.name>>
    /\ last.res = "e_symlink"
    /\ links = Pre.links

\* a create of another target has registered its record
PlaceRecorded ==
    /\ last.op = "create" /\ last.res = "ok"
    /\ last.name \in DOMAIN links /\ ~links[last.name].Shortcut

\* a Symlink-kind create of an unregistered name for a regular file
FileCreate ==
    /\ last.op = "create" /\ ~last.shortcut
    /\ last.name \notin DOMAIN Pre.links
    /\ IsFile(Pre.fs, last.target)

\* C33: a Symlink-kind create for a regular file destroys nothing that its
\* synced path syncDirectory/files/<name> already holds: what was there
\* before the call is there after it, whether the call was refused or not.
C33_FileAntiClobber ==
    (FileCreate /\ ~Absent(Pre.fs, FilesDir(SyncDir) \o <<last.name>>))
        => EntryAt(fs, FilesDir(SyncDir) \o <<last.name>>)
               = EntryAt(Pre.fs, FilesDir(SyncDir) \o <<last.name>>)

\* What does hold: a directory at the synced path of a file survives the
\* create, which fails in its move
FileCreateKeepsDirectory ==
    (/\ FileCreate
     /\ EntryAt(Pre.fs, FilesDir(SyncDir) \o <<last.name>>).k = "dir"
     /\ ~xdev)
        => /\ last.res # "ok"
           /\ EntryAt(fs, FilesDir(SyncDir) \o <<last.name>>)
                  = EntryAt(Pre.fs, FilesDir(SyncDir) \o <<last.name>>)

====
